---- MODULE Spec2Model ----
(***************************************************************************)
(* Model of the CCSDS TM/TC codec of ccsds_tmtc_py: the pseudo-randomizer, *)
(* the pseudo-BCH block code and the CLTU encoder/decoder, the channel     *)
(* encoder/decoder chains, and the TM / AOS / TC transfer frame builders.  *)
(* Octet strings are sequences over 0..255; a Python index i is the TLA+   *)
(* index i+1.  A call's outcome is a record [status, val]: status "ok" or  *)
(* the name of the exception the call raises.                              *)
(***************************************************************************)
EXTENDS Integers, Sequences, FiniteSets, TLC

VARIABLES rnd, cltu, encoder, decoder, call, builder, ret, pdu

vars == <<rnd, cltu, encoder, decoder, call, builder, ret, pdu>>

----------------------------------------------------------------------------
(* Bounds of the model                                                     *)

MaxRandLen == 3
MaxDataLen == 22
MaxStages == 2
Capacity == 1
MaxUnitLen == 2
MaxInflation == 1

----------------------------------------------------------------------------
(* Octet helpers                                                           *)

Min(a, b) == IF a < b THEN a ELSE b

RECURSIVE Xor(_, _)
Xor(a, b) ==
  IF a = 0 THEN b
  ELSE IF b = 0 THEN a
  ELSE 2 * Xor(a \div 2, b \div 2) + ((a + b) % 2)

RECURSIVE Sum(_)
Sum(s) ==
  IF s = <<>> THEN 0 ELSE Head(s) + Sum(Tail(s))

Fill(n, b) == [i \in 1..n |-> b]

\* Python slice s[a:b] for 0 <= a
Slice(s, a, b) == SubSeq(s, a + 1, Min(b, Len(s)))

Ok(v) == [status |-> "ok", val |-> v]

Raise(e) == [status |-> e, val |-> <<>>]

----------------------------------------------------------------------------
(* RandomizerAlgorithm                                                     *)

PRECOMPUTED_RANDOM_SEQ(i) == (i * 17 + (i \div 3) * 5) % 256

get_random_byte(seq_val) == PRECOMPUTED_RANDOM_SEQ(seq_val % 256)

\* the loop body with the generator state fed back from the data octet
RECURSIVE randomize_loop_data_feedback(_, _, _, _)
randomize_loop_data_feedback(data, i, stop, lfsr) ==
  IF i >= stop THEN data
  ELSE LET random_byte == get_random_byte(lfsr)
           out == Xor(data[i + 1], random_byte)
       IN randomize_loop_data_feedback([data EXCEPT ![i + 1] = out], i + 1, stop, out)

\* for i in range(i, stop): data[i] ^= random_byte; lfsr = random_byte
RECURSIVE randomize_loop(_, _, _, _)
randomize_loop(data, i, stop, lfsr) ==
  IF i >= stop THEN data
  ELSE LET random_byte == get_random_byte(lfsr)
       IN randomize_loop([data EXCEPT ![i + 1] = Xor(data[i + 1], random_byte)],
                         i + 1, stop, random_byte)

randomize_frame_tm(data) == randomize_loop(data, 0, Len(data), 255)

randomize_cltu(data, start_octet, stop_octet_exclusive) ==
  randomize_loop(data, start_octet, Min(Len(data), stop_octet_exclusive), 255)

----------------------------------------------------------------------------
(* BchCltuAlgorithm                                                        *)

encode_cltu_block(data_block_7_bytes) ==
  IF Len(data_block_7_bytes) # 7 THEN Raise("ValueError")
  ELSE Ok(data_block_7_bytes \o <<Sum(data_block_7_bytes) % 256>>)

\* a decoder that does not compare the checksum
decode_cltu_block_unchecked(coded_block_8_bytes) ==
  IF Len(coded_block_8_bytes) # 8 THEN Raise("ValueError")
  ELSE Ok(Slice(coded_block_8_bytes, 0, 7))

decode_cltu_block(coded_block_8_bytes) ==
  IF Len(coded_block_8_bytes) # 8 THEN Raise("ValueError")
  ELSE LET data_part == Slice(coded_block_8_bytes, 0, 7)
           received_checksum == coded_block_8_bytes[8]
           calculated_checksum == Sum(data_part) % 256
       IN IF received_checksum # calculated_checksum THEN Raise("ValueError")
          ELSE Ok(data_part)

----------------------------------------------------------------------------
(* CltuEncoder / CltuDecoder                                               *)

START_SEQUENCE == <<235, 144>>

STOP_SEQUENCE == Fill(8, 197)

FILLER_BYTE == 85

\* bytes.index(pat): the first offset where pat occurs, -1 when there is none
Index(data, pat) ==
  LET hits == {i \in 0..(Len(data) - Len(pat)) : Slice(data, i, i + Len(pat)) = pat}
  IN IF hits = {} THEN -1 ELSE CHOOSE i \in hits : \A j \in hits : i <= j

\* bytes.rindex(pat): the last offset where pat occurs, -1 when there is none
RIndex(data, pat) ==
  LET hits == {i \in 0..(Len(data) - Len(pat)) : Slice(data, i, i + Len(pat)) = pat}
  IN IF hits = {} THEN -1 ELSE CHOOSE i \in hits : \A j \in hits : i >= j

\* bytes.rstrip(bytes([b]))
RECURSIVE RStrip(_, _)
RStrip(s, b) ==
  IF s = <<>> \/ s[Len(s)] # b THEN s ELSE RStrip(SubSeq(s, 1, Len(s) - 1), b)

\* the encoder's loop over the 7-octet blocks, from block i on
RECURSIVE cltu_encode_loop(_, _, _)
cltu_encode_loop(randomize, current_data, i) ==
  IF i >= (Len(current_data) + 6) \div 7 THEN <<>>
  ELSE LET block_segment == Slice(current_data, i * 7, i * 7 + 7)
           block_padded == block_segment \o Fill(7 - Len(block_segment), FILLER_BYTE)
           block_to_bch == IF randomize THEN randomize_cltu(block_padded, 0, 7)
                           ELSE block_padded
       IN encode_cltu_block(block_to_bch).val
            \o cltu_encode_loop(randomize, current_data, i + 1)

CltuEncoder_apply(randomize, current_data) ==
  START_SEQUENCE \o cltu_encode_loop(randomize, current_data, 0) \o STOP_SEQUENCE

\* the decoder's loop over the 8-octet codewords, from codeword i on
RECURSIVE cltu_decode_loop(_, _, _)
cltu_decode_loop(randomize, coded_data_stream, i) ==
  IF i >= Len(coded_data_stream) \div 8 THEN Ok(<<>>)
  ELSE LET blk == decode_cltu_block(Slice(coded_data_stream, i * 8, (i + 1) * 8))
       IN IF blk.status # "ok" THEN blk
          ELSE LET bch_decoded_data == IF randomize THEN randomize_cltu(blk.val, 0, 7)
                                       ELSE blk.val
                   rest == cltu_decode_loop(randomize, coded_data_stream, i + 1)
               IN IF rest.status # "ok" THEN rest
                  ELSE Ok(bch_decoded_data \o rest.val)

\* a decoder that returns the joined blocks without removing the filler
CltuDecoder_apply_keep_filler(randomize, data) ==
  LET start_seq_idx == Index(data, START_SEQUENCE)
      payload == Slice(data, start_seq_idx + 2, Len(data))
      stop_seq_idx_in_payload == RIndex(payload, STOP_SEQUENCE)
      coded_data_stream == Slice(payload, 0, stop_seq_idx_in_payload)
  IN IF start_seq_idx = -1 THEN Raise("ValueError")
     ELSE IF stop_seq_idx_in_payload = -1 THEN Raise("ValueError")
     ELSE IF Len(coded_data_stream) % 8 # 0 THEN Raise("ValueError")
     ELSE cltu_decode_loop(randomize, coded_data_stream, 0)

\* a decoder that ends the codewords at the first stop sequence it meets
CltuDecoder_apply_first_stop(randomize, data) ==
  LET start_seq_idx == Index(data, START_SEQUENCE)
      payload == Slice(data, start_seq_idx + 2, Len(data))
      stop_seq_idx_in_payload == Index(payload, STOP_SEQUENCE)
      coded_data_stream == Slice(payload, 0, stop_seq_idx_in_payload)
      parts == cltu_decode_loop(randomize, coded_data_stream, 0)
  IN IF start_seq_idx = -1 THEN Raise("ValueError")
     ELSE IF stop_seq_idx_in_payload = -1 THEN Raise("ValueError")
     ELSE IF Len(coded_data_stream) % 8 # 0 THEN Raise("ValueError")
     ELSE IF parts.status # "ok" THEN parts
     ELSE Ok(RStrip(parts.val, FILLER_BYTE))

CltuDecoder_apply(randomize, data) ==
  LET start_seq_idx == Index(data, START_SEQUENCE)
      payload == Slice(data, start_seq_idx + 2, Len(data))
      stop_seq_idx_in_payload == RIndex(payload, STOP_SEQUENCE)
      coded_data_stream == Slice(payload, 0, stop_seq_idx_in_payload)
      parts == cltu_decode_loop(randomize, coded_data_stream, 0)
  IN IF start_seq_idx = -1 THEN Raise("ValueError")
     ELSE IF stop_seq_idx_in_payload = -1 THEN Raise("ValueError")
     ELSE IF Len(coded_data_stream) % 8 # 0 THEN Raise("ValueError")
     ELSE IF parts.status # "ok" THEN parts
     ELSE Ok(RStrip(parts.val, FILLER_BYTE))

----------------------------------------------------------------------------
(* Channel coding stages: TmAsmEncoder / TmAsmDecoder,                     *)
(* TmRandomizerEncoder / TmRandomizerDecoder                               *)

DEFAULT_ATTACHED_SYNC_MARKER == <<26, 207, 252, 29>>

TmAsmEncoder_apply(original_frame, current_data) ==
  Ok(DEFAULT_ATTACHED_SYNC_MARKER \o current_data)

\* a TmAsmDecoder that verifies the marker and leaves it in place
TmAsmDecoder_apply_no_strip(data) ==
  IF Slice(data, 0, Len(DEFAULT_ATTACHED_SYNC_MARKER)) # DEFAULT_ATTACHED_SYNC_MARKER
  THEN Raise("ValueError")
  ELSE Ok(data)

\* TmAsmDecoder constructed with its defaults (strip_asm = True)
TmAsmDecoder_apply(data) ==
  IF Slice(data, 0, Len(DEFAULT_ATTACHED_SYNC_MARKER)) # DEFAULT_ATTACHED_SYNC_MARKER
  THEN Raise("ValueError")
  ELSE Ok(Slice(data, Len(DEFAULT_ATTACHED_SYNC_MARKER), Len(data)))

TmRandomizerEncoder_apply(original_frame, current_data) ==
  IF current_data = <<>> THEN Ok(<<>>) ELSE Ok(randomize_frame_tm(current_data))

TmRandomizerDecoder_apply(data) ==
  IF data = <<>> THEN Ok(<<>>) ELSE Ok(randomize_frame_tm(data))

\* func.apply(transfer_frame, to_encode) of the stage object func
EncodingFunction_apply(func, original_frame, current_data) ==
  IF func = "TmAsmEncoder" THEN TmAsmEncoder_apply(original_frame, current_data)
  ELSE TmRandomizerEncoder_apply(original_frame, current_data)

\* func(to_decode) of the stage object func
DecodingFunction_call(func, data) ==
  IF func = "TmAsmDecoder" THEN TmAsmDecoder_apply(data)
  ELSE TmRandomizerDecoder_apply(data)

\* the final frame decoder of the decoder chain: it records the octets it is
\* handed and returns a frame holding them
FrameDecoder_apply(processed_data) == Ok(processed_data)

----------------------------------------------------------------------------
(* ChannelEncoder / ChannelDecoder                                         *)
(* An apply() is recorded as the list of the calls it makes, in order:     *)
(* [stage, frame, data, out] per stage call, the frame decoder included.   *)

NoneObject == [is_none |-> TRUE, frame |-> <<>>]

Object(bytes) == [is_none |-> FALSE, frame |-> bytes]

Event(stage, frame, data, out) == [stage |-> stage, frame |-> frame, data |-> data, out |-> out]

Call(op, status, arg, log, out) ==
  [op |-> op, status |-> status, arg |-> arg, log |-> log, out |-> out]

\* the loop of ChannelEncoder.apply run over the stages in reversed order
RECURSIVE run_encoders_reversed(_, _, _, _)
run_encoders_reversed(funcs, transfer_frame, to_encode, log) ==
  IF funcs = <<>> THEN [status |-> "ok", out |-> to_encode, log |-> log]
  ELSE LET func == funcs[Len(funcs)]
           r == EncodingFunction_apply(func, transfer_frame, to_encode)
           log2 == Append(log, Event(func, transfer_frame, to_encode, r))
       IN IF r.status # "ok" THEN [status |-> r.status, out |-> <<>>, log |-> log2]
          ELSE run_encoders_reversed(SubSeq(funcs, 1, Len(funcs) - 1), transfer_frame, r.val, log2)

\* for func in self._sequential_encoders: to_encode = func.apply(transfer_frame, to_encode)
RECURSIVE run_encoders(_, _, _, _)
run_encoders(funcs, transfer_frame, to_encode, log) ==
  IF funcs = <<>> THEN [status |-> "ok", out |-> to_encode, log |-> log]
  ELSE LET func == Head(funcs)
           r == EncodingFunction_apply(func, transfer_frame, to_encode)
           log2 == Append(log, Event(func, transfer_frame, to_encode, r))
       IN IF r.status # "ok" THEN [status |-> r.status, out |-> <<>>, log |-> log2]
          ELSE run_encoders(Tail(funcs), transfer_frame, r.val, log2)

\* the loop of ChannelDecoder.apply carrying on after a stage that raised
RECURSIVE run_decoders_swallow(_, _, _)
run_decoders_swallow(funcs, to_decode, log) ==
  IF funcs = <<>>
  THEN LET f == FrameDecoder_apply(to_decode)
       IN [status |-> f.status, out |-> f.val,
           log |-> Append(log, Event("frame_decoder", <<>>, to_decode, f))]
  ELSE LET func == Head(funcs)
           r == DecodingFunction_call(func, to_decode)
           log2 == Append(log, Event(func, <<>>, to_decode, r))
       IN IF r.status # "ok" THEN run_decoders_swallow(Tail(funcs), to_decode, log2)
          ELSE run_decoders_swallow(Tail(funcs), r.val, log2)

\* for func in self._sequential_decoders: to_decode = func(to_decode)
\* return self._frame_decoder.apply(to_decode)
RECURSIVE run_decoders(_, _, _)
run_decoders(funcs, to_decode, log) ==
  IF funcs = <<>>
  THEN LET f == FrameDecoder_apply(to_decode)
       IN [status |-> f.status, out |-> f.val,
           log |-> Append(log, Event("frame_decoder", <<>>, to_decode, f))]
  ELSE LET func == Head(funcs)
           r == DecodingFunction_call(func, to_decode)
           log2 == Append(log, Event(func, <<>>, to_decode, r))
       IN IF r.status # "ok" THEN [status |-> r.status, out |-> <<>>, log |-> log2]
          ELSE run_decoders(Tail(funcs), r.val, log2)

\* ChannelEncoder.apply without the check of _configured
ChannelEncoder_apply_unchecked(self, transfer_frame) ==
  IF transfer_frame.is_none THEN Call("ChannelEncoder.apply", "ValueError", transfer_frame, <<>>, <<>>)
  ELSE LET r == run_encoders(self.sequential_encoders, transfer_frame.frame, transfer_frame.frame, <<>>)
       IN Call("ChannelEncoder.apply", r.status, transfer_frame, r.log, r.out)

ChannelEncoder_apply(self, transfer_frame) ==
  IF ~self.configured
  THEN Call("ChannelEncoder.apply", "IllegalStateException", transfer_frame, <<>>, <<>>)
  ELSE IF transfer_frame.is_none
  THEN Call("ChannelEncoder.apply", "ValueError", transfer_frame, <<>>, <<>>)
  ELSE LET to_encode == transfer_frame.frame
           r == run_encoders(self.sequential_encoders, transfer_frame.frame, to_encode, <<>>)
       IN Call("ChannelEncoder.apply", r.status, transfer_frame, r.log, r.out)

ChannelDecoder_apply(self, item) ==
  IF ~self.configured
  THEN Call("ChannelDecoder.apply", "IllegalStateException", item, <<>>, <<>>)
  ELSE IF item.is_none
  THEN Call("ChannelDecoder.apply", "ValueError", item, <<>>, <<>>)
  ELSE LET r == run_decoders(self.sequential_decoders, item.frame, <<>>)
       IN Call("ChannelDecoder.apply", r.status, item, r.log, r.out)

\* add_encoding_function appending whatever the state of the chain
ChannelEncoder_add_unchecked(self, func) ==
  [self |-> [self EXCEPT !.sequential_encoders = Append(@, func)], status |-> "ok"]

ChannelEncoder_add_encoding_function(self, func) ==
  IF self.configured THEN [self |-> self, status |-> "IllegalStateException"]
  ELSE [self |-> [self EXCEPT !.sequential_encoders = Append(@, func)], status |-> "ok"]

ChannelDecoder_add_decoding_function(self, func) ==
  IF self.configured THEN [self |-> self, status |-> "IllegalStateException"]
  ELSE [self |-> [self EXCEPT !.sequential_decoders = Append(@, func)], status |-> "ok"]

ChannelEncoder_configure(self) == [self EXCEPT !.configured = TRUE]

ChannelDecoder_configure(self) == [self EXCEPT !.configured = TRUE]

----------------------------------------------------------------------------
(* Transfer frame builders: datalink/builder/*.py                          *)
(* A builder is a record of the builder object's fields; every method is   *)
(* an operator from the object (and the arguments) to the object after     *)
(* the call and the call's outcome.  The header fields the methods below   *)
(* do not read (frame counts, flags) are left out of the record.           *)

\* bytes | None
BytesNone == [some |-> FALSE, bytes |-> <<>>]

BytesOf(b) == [some |-> TRUE, bytes |-> b]

\* Python truth value of a bytes | None: None and b'' are false
Truthy(x) == x.some /\ Len(x.bytes) > 0

\* len(x) if x else 0
LenOrZero(x) == IF Truthy(x) THEN Len(x.bytes) ELSE 0

\* a method call's outcome: the object afterwards, "ok" or the exception raised,
\* and the value returned
Done(self, status, val) == [self |-> self, status |-> status, val |-> val]

RECURSIVE PayloadLength(_)
PayloadLength(units) ==
  IF units = <<>> THEN 0 ELSE Len(Head(units).data) + PayloadLength(Tail(units))

TM_PRIMARY_HEADER_LENGTH == 6

TmTransferFrameBuilder_compute_user_data_length(frame_len, sec_hdr_data_len, ocf_present, fecf_present) ==
  LET sh_total_len == IF sec_hdr_data_len > 0 THEN 1 + sec_hdr_data_len ELSE 0
  IN frame_len - TM_PRIMARY_HEADER_LENGTH - sh_total_len
       - (IF ocf_present THEN 4 ELSE 0) - (IF fecf_present THEN 2 ELSE 0)

\* the builder after TmTransferFrameBuilder(length, ...) returned
TmTransferFrameBuilder_init(length, secondary_header_data_length, ocf_present, fecf_present) ==
  [kind |-> "TM",
   length |-> length,
   secondary_header_data_length |-> secondary_header_data_length,
   ocf_present |-> ocf_present,
   fecf_present |-> fecf_present,
   free_user_data_length |->
     TmTransferFrameBuilder_compute_user_data_length(
       length, secondary_header_data_length, ocf_present, fecf_present),
   secondary_header_bytes |-> BytesNone,
   ocf_bytes |-> BytesNone,
   idle |-> FALSE,
   security_header |-> BytesNone,
   security_trailer |-> BytesNone,
   payload_units |-> <<>>]

\* the constructor's argument checks: it raises ValueError when one fails
TmTransferFrameBuilder_init_accepts(length, secondary_header_data_length, ocf_present, fecf_present) ==
  /\ 0 <= secondary_header_data_length
  /\ secondary_header_data_length <= 63
  /\ TmTransferFrameBuilder_compute_user_data_length(
       length, secondary_header_data_length, ocf_present, fecf_present) >= 0

TmTransferFrameBuilder_set_secondary_header(self, secondary_header_bytes) ==
  IF ~secondary_header_bytes.some
  THEN IF self.secondary_header_data_length > 0
       THEN Done(self, "ValueError", 0)
       ELSE Done([self EXCEPT !.secondary_header_bytes = BytesNone], "ok", 0)
  ELSE IF Len(secondary_header_bytes.bytes) # self.secondary_header_data_length
       THEN Done(self, "ValueError", 0)
       ELSE Done([self EXCEPT !.secondary_header_bytes = secondary_header_bytes], "ok", 0)

\* set_ocf of the TM and of the AOS builder: the same statements
Builder_set_ocf(self, ocf_bytes) ==
  IF ~ocf_bytes.some
  THEN IF self.ocf_present
       THEN Done(self, "ValueError", 0)
       ELSE Done([self EXCEPT !.ocf_bytes = BytesNone], "ok", 0)
  ELSE IF ~self.ocf_present \/ Len(ocf_bytes.bytes) # 4
       THEN Done(self, "ValueError", 0)
       ELSE Done([self EXCEPT !.ocf_bytes = ocf_bytes], "ok", 0)

TmTransferFrameBuilder_set_idle(self, idle) == Done([self EXCEPT !.idle = idle], "ok", 0)

\* the old security length is added back before the space check and stays added
\* when the call is rejected
TmTransferFrameBuilder_set_security(self, header, trailer) ==
  LET current_sec_len == LenOrZero(self.security_header) + LenOrZero(self.security_trailer)
      free == self.free_user_data_length + current_sec_len
      new_sec_len == LenOrZero(header) + LenOrZero(trailer)
  IN IF free < new_sec_len
     THEN Done([self EXCEPT !.free_user_data_length = free], "ValueError", 0)
     ELSE Done([self EXCEPT !.security_header = header,
                            !.security_trailer = trailer,
                            !.free_user_data_length = free - new_sec_len], "ok", 0)

TmTransferFrameBuilder_add_payload_unit(self, data_bytes, is_packet) ==
  LET writable_length == Min(Len(data_bytes), self.free_user_data_length)
  IN IF writable_length > 0
     THEN Done([self EXCEPT
                  !.payload_units =
                     Append(@, [is_packet |-> is_packet, data |-> Slice(data_bytes, 0, writable_length)]),
                  !.free_user_data_length = @ - writable_length],
               "ok", Len(data_bytes) - writable_length)
     ELSE Done(self, "ok", Len(data_bytes) - writable_length)

TmTransferFrameBuilder_add_space_packet(self, packet_data) ==
  TmTransferFrameBuilder_add_payload_unit(self, packet_data, TRUE)

\* the length an add_data call works with: len(data) - offset for length = -1
ActualLength(data, offset, length) == IF length = -1 THEN Len(data) - offset ELSE length

\* the argument check of every add_data
ValidRange(data, offset, length) ==
  LET l == ActualLength(data, offset, length)
  IN ~(offset < 0 \/ l < 0 \/ offset + l > Len(data))

TmTransferFrameBuilder_add_data(self, data, offset, length) ==
  IF ~ValidRange(data, offset, length)
  THEN Done(self, "ValueError", 0)
  ELSE TmTransferFrameBuilder_add_payload_unit(
         self, Slice(data, offset, offset + ActualLength(data, offset, length)), FALSE)

\* is_full of the TM and of the AOS builder
Builder_is_full(self) == self.free_user_data_length = 0

TM_FIRST_HEADER_POINTER_NO_PACKET == 2047

TM_FIRST_HEADER_POINTER_IDLE == 2046

\* only the first payload unit is looked at, and the offset of a leading packet
\* is the length of the security header
TmTransferFrameBuilder_compute_first_header_pointer(self) ==
  IF self.idle THEN TM_FIRST_HEADER_POINTER_IDLE
  ELSE LET offset == LenOrZero(self.security_header)
       IN IF self.payload_units = <<>> THEN TM_FIRST_HEADER_POINTER_NO_PACKET
          ELSE IF Head(self.payload_units).is_packet
          THEN IF offset >= TM_FIRST_HEADER_POINTER_NO_PACKET
               THEN TM_FIRST_HEADER_POINTER_NO_PACKET
               ELSE offset
          ELSE TM_FIRST_HEADER_POINTER_NO_PACKET

\* The bytearray build() writes is followed as w = [buf, pos, status]: the
\* buffer, current_pos, and "ok" or the exception a write raised.

\* frame_bytes[pos : pos + n] = data; pos += n.  A slice assignment never
\* fails: octets past the end of the buffer are appended to it
SliceAssign(w, n, data) ==
  IF w.status # "ok" THEN w
  ELSE [w EXCEPT !.buf = Slice(w.buf, 0, w.pos) \o data \o Slice(w.buf, w.pos + n, Len(w.buf)),
                 !.pos = w.pos + n]

\* struct.pack_into(fmt, frame_bytes, pos, ...) and frame_bytes[pos] = x write
\* in place and raise when the octets do not fit in the buffer
PackInto(w, data, error) ==
  IF w.status # "ok" THEN w
  ELSE IF w.pos + Len(data) > Len(w.buf) THEN [w EXCEPT !.status = error]
  ELSE [w EXCEPT !.buf = Slice(w.buf, 0, w.pos) \o data \o Slice(w.buf, w.pos + Len(data), Len(w.buf))]

\* the octets build() assembles before it constructs the frame; spacecraft id,
\* virtual channel id, the two frame counts, synchronisation flag, packet order
\* flag and segment length identifier are at the values set by the constructor
\* (0, 0, 0, 0, false, false, 3)
TmTransferFrameBuilder_frame_bytes(self) ==
  LET ph_part1 == IF self.ocf_present THEN 1 ELSE 0
      fhp == TmTransferFrameBuilder_compute_first_header_pointer(self)
      secondary_header_present_flag ==
        self.secondary_header_data_length > 0 /\ self.secondary_header_bytes.some
      ph_part2 == (IF secondary_header_present_flag THEN 2^15 ELSE 0) + 3 * 2^11 + fhp
      fill_end_exclusive ==
        self.length - (IF self.ocf_present THEN 4 ELSE 0) - (IF self.fecf_present THEN 2 ELSE 0)
          - LenOrZero(self.security_trailer)
      RECURSIVE payload(_, _)
      payload(w, units) ==
        IF units = <<>> THEN w
        ELSE payload(SliceAssign(w, Len(Head(units).data), Head(units).data), Tail(units))
      w0 == [buf |-> Fill(self.length, 0), pos |-> 0, status |-> "ok"]
      w1 == PackInto(w0, <<ph_part1 \div 256, ph_part1 % 256, 0, 0>>, "struct.error")
      w2 == [PackInto([w1 EXCEPT !.pos = 4], <<ph_part2 \div 256, ph_part2 % 256>>, "struct.error")
               EXCEPT !.pos = TM_PRIMARY_HEADER_LENGTH]
      w3 == IF secondary_header_present_flag
            THEN SliceAssign([PackInto(w2, <<self.secondary_header_data_length % 64>>, "IndexError")
                                EXCEPT !.pos = @ + 1],
                             self.secondary_header_data_length, self.secondary_header_bytes.bytes)
            ELSE w2
      w4 == IF Truthy(self.security_header)
            THEN SliceAssign(w3, Len(self.security_header.bytes), self.security_header.bytes)
            ELSE w3
      w5 == payload(w4, self.payload_units)
      w6 == IF self.idle /\ w5.pos < fill_end_exclusive
            THEN [w5 EXCEPT !.buf = [i \in 1..Len(w5.buf) |->
                                       IF w5.pos < i /\ i <= fill_end_exclusive THEN 85 ELSE w5.buf[i]],
                            !.pos = fill_end_exclusive]
            ELSE w5
      w7 == IF Truthy(self.security_trailer)
            THEN SliceAssign(w6, Len(self.security_trailer.bytes), self.security_trailer.bytes)
            ELSE w6
      w8 == IF self.ocf_present /\ Truthy(self.ocf_bytes)
            THEN SliceAssign(w7, 4, self.ocf_bytes.bytes)
            ELSE w7
  IN IF self.fecf_present THEN PackInto(w8, <<0, 0>>, "struct.error") ELSE w8

\* TmTransferFrame(frame, fecf_present, security_header_length,
\* security_trailer_length): AbstractTransferFrame.__init__ assigns
\* self.virtual_channel_frame_count, which TmTransferFrame declares as a property
\* without a setter, so every construction raises AttributeError before a field
\* of the frame is decoded
TmTransferFrame_init(frame, fecf_present, security_header_length, security_trailer_length) ==
  Raise("AttributeError")

\* build() with the check of the secondary header left out
TmTransferFrameBuilder_build_unchecked(self) ==
  IF ~Builder_is_full(self) /\ ~self.idle
  THEN Done(self, "IllegalStateException", 0)
  ELSE IF self.ocf_present /\ ~self.ocf_bytes.some
  THEN Done(self, "IllegalStateException", 0)
  ELSE LET w == TmTransferFrameBuilder_frame_bytes(self)
       IN IF w.status # "ok" THEN Done(self, w.status, 0)
          ELSE Done(self, TmTransferFrame_init(w.buf, self.fecf_present,
                                               LenOrZero(self.security_header),
                                               LenOrZero(self.security_trailer)).status, 0)

\* a build() that takes the idle mark off the builder it was called on
TmTransferFrameBuilder_build_consuming(self) ==
  LET r == TmTransferFrameBuilder_build_unchecked(self)
  IN Done([self EXCEPT !.idle = FALSE], r.status, r.val)

TmTransferFrameBuilder_build(self) ==
  IF ~Builder_is_full(self) /\ ~self.idle
  THEN Done(self, "IllegalStateException", 0)
  ELSE IF self.secondary_header_data_length > 0 /\ ~self.secondary_header_bytes.some
  THEN Done(self, "IllegalStateException", 0)
  ELSE IF self.ocf_present /\ ~self.ocf_bytes.some
  THEN Done(self, "IllegalStateException", 0)
  ELSE LET w == TmTransferFrameBuilder_frame_bytes(self)
       IN IF w.status # "ok" THEN Done(self, w.status, 0)
          ELSE Done(self, TmTransferFrame_init(w.buf, self.fecf_present,
                                               LenOrZero(self.security_header),
                                               LenOrZero(self.security_trailer)).status, 0)

AOS_PRIMARY_HEADER_LENGTH == 6

AOS_PRIMARY_HEADER_FHEC_LENGTH == 2

UserDataType == {"M_PDU", "B_PDU", "VCA", "IDLE"}

AosTransferFrameBuilder_compute_user_data_length(frame_len, fhec_present, iz_len, ud_type, ocf_present, fecf_present) ==
  LET header_len == AOS_PRIMARY_HEADER_LENGTH
                      + (IF fhec_present THEN AOS_PRIMARY_HEADER_FHEC_LENGTH ELSE 0)
                      + iz_len
                      + (IF ud_type \in {"M_PDU", "B_PDU"} THEN 2 ELSE 0)
  IN frame_len - header_len - (IF ocf_present THEN 4 ELSE 0) - (IF fecf_present THEN 2 ELSE 0)

\* the builder after AosTransferFrameBuilder(length, ...) returned
AosTransferFrameBuilder_init(length, fhec_present, insert_zone_length, user_data_type, ocf_present, fecf_present) ==
  [kind |-> "AOS",
   length |-> length,
   frame_header_error_control_present |-> fhec_present,
   insert_zone_length |-> insert_zone_length,
   user_data_type |-> user_data_type,
   ocf_present |-> ocf_present,
   fecf_present |-> fecf_present,
   free_user_data_length |->
     AosTransferFrameBuilder_compute_user_data_length(
       length, fhec_present, insert_zone_length, user_data_type, ocf_present, fecf_present),
   virtual_channel_id |-> 0,
   insert_zone_bytes |-> BytesNone,
   ocf_bytes |-> BytesNone,
   idle |-> FALSE,
   security_header |-> BytesNone,
   security_trailer |-> BytesNone,
   payload_units |-> <<>>]

\* the constructor's argument checks: it raises ValueError when one fails
AosTransferFrameBuilder_init_accepts(length, fhec_present, insert_zone_length, user_data_type, ocf_present, fecf_present) ==
  /\ 0 <= insert_zone_length
  /\ insert_zone_length <= 255
  /\ AosTransferFrameBuilder_compute_user_data_length(
       length, fhec_present, insert_zone_length, user_data_type, ocf_present, fecf_present) >= 0

AosTransferFrameBuilder_set_virtual_channel_id(self, virtual_channel_id) ==
  IF ~(0 <= virtual_channel_id /\ virtual_channel_id <= 63)
  THEN Done(self, "ValueError", 0)
  ELSE Done([self EXCEPT !.virtual_channel_id = virtual_channel_id], "ok", 0)

AosTransferFrameBuilder_set_insert_zone(self, insert_zone_bytes) ==
  IF ~insert_zone_bytes.some
  THEN IF self.insert_zone_length > 0
       THEN Done(self, "ValueError", 0)
       ELSE Done([self EXCEPT !.insert_zone_bytes = BytesNone], "ok", 0)
  ELSE IF Len(insert_zone_bytes.bytes) # self.insert_zone_length
       THEN Done(self, "ValueError", 0)
       ELSE Done([self EXCEPT !.insert_zone_bytes = insert_zone_bytes], "ok", 0)

\* set_idle(True) also sets the virtual channel to 63
AosTransferFrameBuilder_set_idle(self, idle) ==
  IF idle
  THEN AosTransferFrameBuilder_set_virtual_channel_id([self EXCEPT !.idle = idle], 63)
  ELSE Done([self EXCEPT !.idle = idle], "ok", 0)

\* a rejected call takes the old security length off again before it raises
AosTransferFrameBuilder_set_security(self, header, trailer) ==
  LET current_sec_len == LenOrZero(self.security_header) + LenOrZero(self.security_trailer)
      free == self.free_user_data_length + current_sec_len
      new_sec_len == LenOrZero(header) + LenOrZero(trailer)
  IN IF free < new_sec_len
     THEN Done([self EXCEPT !.free_user_data_length = free - current_sec_len], "ValueError", 0)
     ELSE Done([self EXCEPT !.security_header = header,
                            !.security_trailer = trailer,
                            !.free_user_data_length = free - new_sec_len], "ok", 0)

AosTransferFrameBuilder_add_payload(self, data_to_add, type_val, valid_bits) ==
  LET writable_length == Min(Len(data_to_add), self.free_user_data_length)
  IN IF writable_length > 0
     THEN Done([self EXCEPT
                  !.payload_units =
                     Append(@, [type_val |-> type_val,
                                data |-> Slice(data_to_add, 0, writable_length),
                                valid_data_bits |-> IF type_val = "TYPE_BITSTREAM"
                                                    THEN valid_bits
                                                    ELSE writable_length * 8]),
                  !.free_user_data_length = @ - writable_length],
               "ok", Len(data_to_add) - writable_length)
     ELSE Done(self, "ok", Len(data_to_add) - writable_length)

AosTransferFrameBuilder_add_space_packet(self, packet_data) ==
  IF self.user_data_type # "M_PDU"
  THEN Done(self, "IllegalStateException", 0)
  ELSE AosTransferFrameBuilder_add_payload(self, packet_data, "TYPE_PACKET", 0)

AosTransferFrameBuilder_add_bitstream_data(self, data, valid_data_bits) ==
  IF self.user_data_type # "B_PDU"
  THEN Done(self, "IllegalStateException", 0)
  ELSE AosTransferFrameBuilder_add_payload(self, data, "TYPE_BITSTREAM", valid_data_bits)

AosTransferFrameBuilder_add_data(self, data, offset, length) ==
  IF ~ValidRange(data, offset, length)
  THEN Done(self, "ValueError", 0)
  ELSE AosTransferFrameBuilder_add_payload(
         self, Slice(data, offset, offset + ActualLength(data, offset, length)), "TYPE_DATA", 0)

AOS_M_PDU_FIRST_HEADER_POINTER_IDLE == 2046

AOS_M_PDU_FIRST_HEADER_POINTER_NO_PACKET == 2047

AOS_B_PDU_FIRST_HEADER_POINTER_IDLE == 16382

AOS_B_PDU_FIRST_HEADER_POINTER_ALL_DATA == 16383

\* the idle value is returned only while the virtual channel id is not 63
AosTransferFrameBuilder_compute_mpdu_first_header_pointer(self) ==
  LET RECURSIVE scan(_, _)
      scan(units, offset) ==
        IF units = <<>> THEN AOS_M_PDU_FIRST_HEADER_POINTER_NO_PACKET
        ELSE IF Head(units).type_val = "TYPE_PACKET"
        THEN IF offset >= AOS_M_PDU_FIRST_HEADER_POINTER_NO_PACKET
             THEN AOS_M_PDU_FIRST_HEADER_POINTER_NO_PACKET
             ELSE offset
        ELSE scan(Tail(units), offset + Len(Head(units).data))
  IN IF self.idle /\ self.user_data_type = "M_PDU" /\ self.virtual_channel_id # 63
     THEN AOS_M_PDU_FIRST_HEADER_POINTER_IDLE
     ELSE scan(self.payload_units, 0)

AosTransferFrameBuilder_compute_bpdu_bitstream_data_pointer(self) ==
  LET RECURSIVE valid_bits(_)
      valid_bits(units) ==
        IF units = <<>> THEN 0
        ELSE (IF Head(units).type_val = "TYPE_BITSTREAM" THEN Head(units).valid_data_bits ELSE 0)
               + valid_bits(Tail(units))
      total_valid_bits == valid_bits(self.payload_units)
      total_payload_bits ==
        (self.length - self.free_user_data_length
           - (AOS_PRIMARY_HEADER_LENGTH
                + (IF self.frame_header_error_control_present THEN AOS_PRIMARY_HEADER_FHEC_LENGTH ELSE 0)
                + self.insert_zone_length + 2
                + LenOrZero(self.security_header) + LenOrZero(self.security_trailer)
                + (IF self.ocf_present THEN 4 ELSE 0) + (IF self.fecf_present THEN 2 ELSE 0))) * 8
  IN IF self.idle /\ self.user_data_type = "B_PDU" /\ self.virtual_channel_id # 63
     THEN AOS_B_PDU_FIRST_HEADER_POINTER_IDLE
     ELSE IF self.payload_units # <<>>
     THEN IF total_valid_bits >= total_payload_bits
          THEN AOS_B_PDU_FIRST_HEADER_POINTER_ALL_DATA
          ELSE total_valid_bits % 2^14
     ELSE 0

\* build() passes its three state checks and then reads AosTransferFrame.AOS_VERSION,
\* an attribute the class does not define: AttributeError, before a byte is laid out
AosTransferFrameBuilder_build(self) ==
  IF ~Builder_is_full(self) /\ ~(self.idle \/ self.user_data_type = "IDLE")
  THEN Done(self, "IllegalStateException", 0)
  ELSE IF self.insert_zone_length > 0 /\ ~self.insert_zone_bytes.some
  THEN Done(self, "IllegalStateException", 0)
  ELSE IF self.ocf_present /\ ~self.ocf_bytes.some
  THEN Done(self, "IllegalStateException", 0)
  ELSE Done(self, "AttributeError", 0)

TC_PRIMARY_HEADER_LENGTH == 5

MAX_TC_FRAME_LENGTH == 1024

TcTransferFrameBuilder_compute_max_user_data_length(fecf_present) ==
  MAX_TC_FRAME_LENGTH - (TC_PRIMARY_HEADER_LENGTH + (IF fecf_present THEN 2 ELSE 0))

\* the builder after TcTransferFrameBuilder(fecf_present) returned
TcTransferFrameBuilder_init(fecf_present) ==
  [kind |-> "TC",
   fecf_present |-> fecf_present,
   control_command_flag |-> FALSE,
   segmented |-> FALSE,
   map_id |-> 0,
   security_header |-> BytesNone,
   security_trailer |-> BytesNone,
   payload_data |-> BytesNone,
   max_payload_length |-> TcTransferFrameBuilder_compute_max_user_data_length(fecf_present),
   current_payload_length |-> 0,
   free_user_data_length |-> TcTransferFrameBuilder_compute_max_user_data_length(fecf_present)]

\* the free length is assigned first and checked afterwards: a ValueError leaves
\* the negative value in the builder
TcTransferFrameBuilder_update_free_length(self) ==
  LET overhead == (IF self.segmented THEN 1 ELSE 0)
                    + LenOrZero(self.security_header) + LenOrZero(self.security_trailer)
      free == self.max_payload_length - overhead - self.current_payload_length
  IN Done([self EXCEPT !.free_user_data_length = free],
          IF free < 0 THEN "ValueError" ELSE "ok", 0)

TcTransferFrameBuilder_set_security(self, header, trailer) ==
  IF self.control_command_flag
  THEN IF Truthy(header) \/ Truthy(trailer)
       THEN Done(self, "IllegalStateException", 0)
       ELSE TcTransferFrameBuilder_update_free_length(
              [self EXCEPT !.security_header = BytesNone, !.security_trailer = BytesNone])
  ELSE TcTransferFrameBuilder_update_free_length(
         [self EXCEPT !.security_header = header, !.security_trailer = trailer])

TcTransferFrameBuilder_set_control_command_flag(self, control_command_flag) ==
  LET s1 == [self EXCEPT !.control_command_flag = control_command_flag]
  IN IF control_command_flag
     THEN LET r == TcTransferFrameBuilder_set_security(
                     [s1 EXCEPT !.segmented = FALSE], BytesNone, BytesNone)
          IN IF r.status # "ok" THEN r ELSE TcTransferFrameBuilder_update_free_length(r.self)
     ELSE TcTransferFrameBuilder_update_free_length(s1)

\* a set_segment that does not look at the control command flag
TcTransferFrameBuilder_set_segment_any(self, map_id) ==
  IF ~(0 <= map_id /\ map_id <= 63)
  THEN Done(self, "ValueError", 0)
  ELSE LET s1 == [self EXCEPT !.segmented = TRUE, !.map_id = map_id]
       IN IF ~self.segmented
          THEN TcTransferFrameBuilder_update_free_length(s1)
          ELSE Done(s1, "ok", 0)

TcTransferFrameBuilder_set_segment(self, map_id) ==
  IF self.control_command_flag
  THEN Done(self, "IllegalStateException", 0)
  ELSE IF ~(0 <= map_id /\ map_id <= 63)
  THEN Done(self, "ValueError", 0)
  ELSE LET s1 == [self EXCEPT !.segmented = TRUE, !.map_id = map_id]
       IN IF ~self.segmented
          THEN TcTransferFrameBuilder_update_free_length(s1)
          ELSE Done(s1, "ok", 0)

\* a payload already present is replaced; the room offered to the new payload is
\* the free length as it stood with the old payload in place
TcTransferFrameBuilder_add_data(self, data, offset, length) ==
  IF ~ValidRange(data, offset, length)
  THEN Done(self, "ValueError", 0)
  ELSE LET data_to_add == Slice(data, offset, offset + ActualLength(data, offset, length))
           current == IF self.payload_data.some THEN 0 ELSE self.current_payload_length
           writable_length == Min(Len(data_to_add), self.free_user_data_length + current)
           s1 == IF writable_length > 0
                 THEN [self EXCEPT !.payload_data = BytesOf(Slice(data_to_add, 0, writable_length)),
                                   !.current_payload_length = writable_length]
                 ELSE [self EXCEPT !.payload_data = BytesNone,
                                   !.current_payload_length = 0]
           r == TcTransferFrameBuilder_update_free_length(s1)
       IN IF r.status # "ok" THEN r ELSE Done(r.self, "ok", Len(data_to_add) - writable_length)

TcTransferFrameBuilder_clear_data(self) ==
  TcTransferFrameBuilder_update_free_length(
    [self EXCEPT !.payload_data = BytesNone, !.current_payload_length = 0])

TcTransferFrameBuilder_set_unlock_control_command(self) ==
  IF ~self.control_command_flag
  THEN Done(self, "IllegalStateException", 0)
  ELSE LET c == TcTransferFrameBuilder_clear_data(self)
       IN IF c.status # "ok" THEN c
          ELSE LET a == TcTransferFrameBuilder_add_data(c.self, <<0>>, 0, -1)
               IN Done(a.self, a.status, 0)

TcTransferFrameBuilder_set_set_vr_control_command(self, fs_number) ==
  IF ~self.control_command_flag
  THEN Done(self, "IllegalStateException", 0)
  ELSE IF ~(0 <= fs_number /\ fs_number <= 255)
  THEN Done(self, "ValueError", 0)
  ELSE LET c == TcTransferFrameBuilder_clear_data(self)
       IN IF c.status # "ok" THEN c
          ELSE LET a == TcTransferFrameBuilder_add_data(c.self, <<130, 0, fs_number>>, 0, -1)
               IN Done(a.self, a.status, 0)

\* build() passes its checks and then reads TcTransferFrame.TC_VERSION, an
\* attribute the class does not define: AttributeError, before a byte is laid out
TcTransferFrameBuilder_build(self) ==
  LET frame_len == TC_PRIMARY_HEADER_LENGTH
                     + (IF self.segmented THEN 1 ELSE 0)
                     + LenOrZero(self.security_header)
                     + LenOrZero(self.payload_data)
                     + LenOrZero(self.security_trailer)
                     + (IF self.fecf_present THEN 2 ELSE 0)
  IN IF ~self.payload_data.some /\ ~self.control_command_flag
     THEN Done(self, "IllegalStateException", 0)
     ELSE IF frame_len > MAX_TC_FRAME_LENGTH
     THEN Done(self, "ValueError", 0)
     ELSE Done(self, "AttributeError", 0)

----------------------------------------------------------------------------
(* Transfer frames: the constructors that parse a frame                    *)

\* struct.unpack(">H", frame[i : i + 2])
UnpackH(frame, i) == frame[i + 1] * 256 + frame[i + 2]

\* AosTransferFrame(frame, ...): the length and the version number are checked,
\* then line 75 assigns self.replay_flag, which the class declares as a property
\* without a setter: AttributeError, before the pointer field and the ranges of
\* the data field and the OCF are derived
AosTransferFrame_init(frame, frame_header_error_control_present, insert_zone_length, user_data_type, ocf_present, fecf_present, security_header_length, security_trailer_length) ==
  LET min_expected_len ==
        AOS_PRIMARY_HEADER_LENGTH
          + (IF frame_header_error_control_present THEN AOS_PRIMARY_HEADER_FHEC_LENGTH ELSE 0)
          + insert_zone_length
          + (IF user_data_type \in {"M_PDU", "B_PDU"} THEN 2 ELSE 0)
  IN IF Len(frame) < min_expected_len THEN Raise("ValueError")
     ELSE IF UnpackH(frame, 0) \div 2^14 # 1 THEN Raise("ValueError")
     ELSE Raise("AttributeError")

\* TcTransferFrame._determine_frame_type()
TcTransferFrame_determine_frame_type(control_command_flag, bypass_flag) ==
  IF control_command_flag THEN "BC"
  ELSE IF bypass_flag THEN "BD"
  ELSE "AD"

\* the constructor with the comparison of the length field left out
TcTransferFrame_init_any_length(frame, segmented_fn, fecf_present, security_header_length, security_trailer_length) ==
  IF Len(frame) < TC_PRIMARY_HEADER_LENGTH THEN Raise("ValueError")
  ELSE IF Len(frame) > MAX_TC_FRAME_LENGTH THEN Raise("ValueError")
  ELSE IF UnpackH(frame, 0) \div 2^14 # 0 THEN Raise("ValueError")
  ELSE Raise("AttributeError")

\* TcTransferFrame(frame, segmented_fn, ...): the lengths, the version number and
\* the length field are checked and the frame type is determined, then line 73
\* reads self.determined_frame_type, an attribute that is never assigned (line
\* 70 assigns self._determined_frame_type): AttributeError, before segmented,
\* the control command and the range of the data field are derived
TcTransferFrame_init(frame, segmented_fn, fecf_present, security_header_length, security_trailer_length) ==
  LET hdr_part1 == UnpackH(frame, 0)
      hdr_part2 == UnpackH(frame, 2)
      bypass_flag == (hdr_part1 \div 2^13) % 2 = 1
      control_command_flag == (hdr_part1 \div 2^12) % 2 = 1
      frame_length_field == hdr_part2 % 2^10
      actual_frame_length == frame_length_field + 1
      determined_frame_type ==
        TcTransferFrame_determine_frame_type(control_command_flag, bypass_flag)
  IN IF Len(frame) < TC_PRIMARY_HEADER_LENGTH THEN Raise("ValueError")
     ELSE IF Len(frame) > MAX_TC_FRAME_LENGTH THEN Raise("ValueError")
     ELSE IF hdr_part1 \div 2^14 # 0 THEN Raise("ValueError")
     ELSE IF actual_frame_length # Len(frame) THEN Raise("ValueError")
     ELSE Raise("AttributeError")

----------------------------------------------------------------------------
(* Idle values of the parts of the state a specification does not use      *)

RndIdle ==
  [orig |-> <<>>, buf |-> <<>>, mid |-> <<>>, fn |-> "none", start |-> 0, stop |-> 0, n |-> 0]

CltuIdle ==
  [data |-> <<>>, enc_randomize |-> FALSE, dec_randomize |-> FALSE,
   encoded |-> Raise("none"), decoded |-> Raise("none"), pc |-> "none"]

ChainIdle ==
  /\ encoder = "none"
  /\ decoder = "none"
  /\ call = "none"

BuilderIdle ==
  /\ builder = "none"
  /\ ret = "none"

PduIdle == pdu = "none"

----------------------------------------------------------------------------
(* The randomizer applied once and twice to a buffer                       *)

RandBytes == {0, 85, 255}

RECURSIVE Strings(_, _)
Strings(alphabet, n) ==
  IF n = 0 THEN {<<>>}
  ELSE LET shorter == Strings(alphabet, n - 1)
       IN shorter \cup {Append(s, b) : s \in {t \in shorter : Len(t) = n - 1}, b \in alphabet}

InitRand ==
  /\ rnd \in {[orig |-> x, buf |-> x, mid |-> x, fn |-> f, start |-> a, stop |-> b, n |-> 0] :
                x \in Strings(RandBytes, MaxRandLen), f \in {"tm", "cltu"},
                a \in 0..MaxRandLen, b \in 0..(MaxRandLen + 1)}
  /\ rnd.fn = "tm" => rnd.start = 0 /\ rnd.stop = 0
  /\ cltu = CltuIdle
  /\ ChainIdle
  /\ BuilderIdle
  /\ PduIdle

RandomizeFrameTm ==
  /\ rnd.fn = "tm"
  /\ rnd.n < 2
  /\ LET out == randomize_frame_tm(rnd.buf)
     IN rnd' = [rnd EXCEPT !.buf = out, !.n = @ + 1, !.mid = IF rnd.n = 0 THEN out ELSE @]
  /\ UNCHANGED <<cltu, encoder, decoder, call, builder, ret, pdu>>

RandomizeCltu ==
  /\ rnd.fn = "cltu"
  /\ rnd.n < 2
  /\ LET out == randomize_cltu(rnd.buf, rnd.start, rnd.stop)
     IN rnd' = [rnd EXCEPT !.buf = out, !.n = @ + 1, !.mid = IF rnd.n = 0 THEN out ELSE @]
  /\ UNCHANGED <<cltu, encoder, decoder, call, builder, ret, pdu>>

NextRand ==
  \/ RandomizeFrameTm
  \/ RandomizeCltu

SpecRand == InitRand /\ [][NextRand]_vars

----------------------------------------------------------------------------
(* A CLTU encoder and a CLTU decoder applied one after the other           *)

CltuBytes == {0, 65, 85, 197}

\* n octets: body in all positions but the last, last in the last
Pattern(n, body, last) == [i \in 1..n |-> IF i = n THEN last ELSE body]

\* the block of CCSDS 231.0-B-3 Appendix A.3 the encoder's own example encodes
CltuExample == <<65, 4, 16, 65, 4, 16, 64>>

CltuInputs ==
  {Pattern(n, b, l) : n \in 0..MaxDataLen, b \in CltuBytes, l \in CltuBytes} \cup {CltuExample}

InitCltu ==
  /\ cltu \in {[data |-> d, enc_randomize |-> r1, dec_randomize |-> r2,
                encoded |-> Raise("none"), decoded |-> Raise("none"), pc |-> "new"] :
                 d \in CltuInputs, r1 \in BOOLEAN, r2 \in BOOLEAN}
  /\ rnd = RndIdle
  /\ ChainIdle
  /\ BuilderIdle
  /\ PduIdle

CltuEncoderApply ==
  /\ cltu.pc = "new"
  /\ cltu' = [cltu EXCEPT !.encoded = Ok(CltuEncoder_apply(cltu.enc_randomize, cltu.data)),
                          !.pc = "encoded"]
  /\ UNCHANGED <<rnd, encoder, decoder, call, builder, ret, pdu>>

CltuDecoderApply ==
  /\ cltu.pc = "encoded"
  /\ cltu' = [cltu EXCEPT !.decoded = CltuDecoder_apply(cltu.dec_randomize, cltu.encoded.val),
                          !.pc = "decoded"]
  /\ UNCHANGED <<rnd, encoder, decoder, call, builder, ret, pdu>>

NextCltu ==
  \/ CltuEncoderApply
  \/ CltuDecoderApply

SpecCltu == InitCltu /\ [][NextCltu]_vars

----------------------------------------------------------------------------
(* The BCH encoder and decoder applied to a block                          *)

\* longest block offered to the BCH encoder and decoder
MaxBlockLen == 9

BchBytes == {0, 16, 255}

BchInputs == {Pattern(n, b, l) : n \in 0..MaxBlockLen, b \in BchBytes, l \in BchBytes}

\* a block, and the bit of the checksum octet flipped on the way from the
\* encoder to the decoder (-1: none)
InitBch ==
  /\ cltu \in {[block |-> d, flip |-> f, encoded |-> Raise("none"), received |-> <<>>,
                decoded |-> Raise("none"), pc |-> "new"] :
                 d \in BchInputs, f \in -1..7}
  /\ rnd = RndIdle
  /\ ChainIdle
  /\ BuilderIdle
  /\ PduIdle

\* BchCltuAlgorithm.encode_cltu_block(block)
EncodeCltuBlock ==
  /\ cltu.pc = "new"
  /\ cltu' = [cltu EXCEPT !.encoded = encode_cltu_block(cltu.block), !.pc = "encoded"]
  /\ UNCHANGED <<rnd, encoder, decoder, call, builder, ret, pdu>>

\* BchCltuAlgorithm.decode_cltu_block on the codeword, with the chosen bit of
\* its last octet flipped, or on the block itself when it was not encoded
DecodeCltuBlock ==
  /\ cltu.pc = "encoded"
  /\ LET coded == cltu.encoded.val
         received == IF cltu.encoded.status # "ok" THEN cltu.block
                     ELSE IF cltu.flip = -1 THEN coded
                     ELSE [coded EXCEPT ![8] = Xor(@, 2^cltu.flip)]
     IN cltu' = [cltu EXCEPT !.received = received, !.decoded = decode_cltu_block(received),
                             !.pc = "decoded"]
  /\ UNCHANGED <<rnd, encoder, decoder, call, builder, ret, pdu>>

NextBch ==
  \/ EncodeCltuBlock
  \/ DecodeCltuBlock

SpecBch == InitBch /\ [][NextBch]_vars

----------------------------------------------------------------------------
(* A CLTU decoder applied to a received stream                             *)

\* most codewords between the start and the stop sequence of a stream
MaxBlocks == 2

\* a codeword as the BCH encoder makes it, and one whose checksum octet has its
\* lowest bit flipped
GoodBlock == encode_cltu_block(CltuExample).val

BadBlock == [GoodBlock EXCEPT ![8] = Xor(@, 1)]

RECURSIVE BlockRuns(_)
BlockRuns(n) ==
  IF n = 0 THEN {<<>>}
  ELSE BlockRuns(n - 1) \cup {r \o b : r \in BlockRuns(n - 1), b \in {GoodBlock, BadBlock}}

\* received streams: octets before the start sequence, the start sequence whole,
\* cut or missing, a run of codewords with or without a stray octet, the stop
\* sequence whole, cut, missing, lengthened or doubled, octets after it
CltuStreams ==
  {before \o start \o run \o stray \o stop \o after :
     before \in {<<>>, <<0>>, STOP_SEQUENCE},
     start \in {START_SEQUENCE, <<235>>, <<>>},
     run \in BlockRuns(MaxBlocks),
     stray \in {<<>>, <<0>>},
     stop \in {STOP_SEQUENCE, Fill(7, 197), <<>>, Fill(9, 197), STOP_SEQUENCE \o STOP_SEQUENCE},
     after \in {<<>>, <<0>>}}

InitCltuStreams ==
  /\ cltu \in {[data |-> <<>>, enc_randomize |-> FALSE, dec_randomize |-> r,
                encoded |-> Ok(d), decoded |-> Raise("none"), pc |-> "received"] :
                 d \in CltuStreams, r \in BOOLEAN}
  /\ rnd = RndIdle
  /\ ChainIdle
  /\ BuilderIdle
  /\ PduIdle

\* CltuDecoder(randomize).apply(data) on a received stream
CltuDecoderApplyReceived ==
  /\ cltu.pc = "received"
  /\ cltu' = [cltu EXCEPT !.decoded = CltuDecoder_apply(cltu.dec_randomize, cltu.encoded.val),
                          !.pc = "decoded"]
  /\ UNCHANGED <<rnd, encoder, decoder, call, builder, ret, pdu>>

NextCltuStreams == CltuDecoderApplyReceived

SpecCltuStreams == InitCltuStreams /\ [][NextCltuStreams]_vars

----------------------------------------------------------------------------
(* A channel encoder and a channel decoder driven by their callers         *)

EncoderStages == {"TmRandomizerEncoder", "TmAsmEncoder"}

DecoderStages == {"TmAsmDecoder", "TmRandomizerDecoder"}

ChainFrames == {<<>>, <<7>>, <<26, 207, 252, 29, 7, 9>>}

\* the last call, with where the decoder's input came from: from_encoder when it
\* is the output of the encoder applied to the frame orig
Recorded(c, from_encoder, orig) ==
  [op |-> c.op, status |-> c.status, arg |-> c.arg, log |-> c.log, out |-> c.out,
   from_encoder |-> from_encoder, orig |-> orig]

InitChain ==
  /\ encoder \in {[frame_copy |-> fc, sequential_encoders |-> <<>>, configured |-> FALSE] :
                    fc \in BOOLEAN}
  /\ decoder = [sequential_decoders |-> <<>>, configured |-> FALSE]
  /\ call = Recorded(Call("new", "ok", NoneObject, <<>>, <<>>), FALSE, <<>>)
  /\ rnd = RndIdle
  /\ cltu = CltuIdle
  /\ BuilderIdle
  /\ PduIdle

EncoderAdd ==
  \E func \in EncoderStages :
    /\ encoder.configured \/ Len(encoder.sequential_encoders) < MaxStages
    /\ LET r == ChannelEncoder_add_encoding_function(encoder, func)
       IN /\ encoder' = r.self
          /\ call' = Recorded(Call("add_encoding_function", r.status, NoneObject, <<>>, <<>>),
                              FALSE, <<>>)
    /\ UNCHANGED <<rnd, cltu, decoder, builder, ret, pdu>>

EncoderConfigure ==
  /\ encoder' = ChannelEncoder_configure(encoder)
  /\ call' = Recorded(Call("ChannelEncoder.configure", "ok", NoneObject, <<>>, <<>>), FALSE, <<>>)
  /\ UNCHANGED <<rnd, cltu, decoder, builder, ret, pdu>>

EncoderApply ==
  \E f \in {Object(x) : x \in ChainFrames} \cup {NoneObject} :
    /\ call' = Recorded(ChannelEncoder_apply(encoder, f), FALSE, f.frame)
    /\ UNCHANGED <<rnd, cltu, encoder, decoder, builder, ret, pdu>>

DecoderAdd ==
  \E func \in DecoderStages :
    /\ decoder.configured \/ Len(decoder.sequential_decoders) < MaxStages
    /\ LET r == ChannelDecoder_add_decoding_function(decoder, func)
       IN /\ decoder' = r.self
          /\ call' = Recorded(Call("add_decoding_function", r.status, NoneObject, <<>>, <<>>),
                              FALSE, <<>>)
    /\ UNCHANGED <<rnd, cltu, encoder, builder, ret, pdu>>

DecoderConfigure ==
  /\ decoder' = ChannelDecoder_configure(decoder)
  /\ call' = Recorded(Call("ChannelDecoder.configure", "ok", NoneObject, <<>>, <<>>), FALSE, <<>>)
  /\ UNCHANGED <<rnd, cltu, encoder, builder, ret, pdu>>

\* the decoder applied to received octets of any origin
DecoderApply ==
  \E item \in {Object(x) : x \in ChainFrames} \cup {NoneObject} :
    /\ call' = Recorded(ChannelDecoder_apply(decoder, item), FALSE, <<>>)
    /\ UNCHANGED <<rnd, cltu, encoder, decoder, builder, ret, pdu>>

\* the decoder applied to the octets the encoder has just produced
DecoderApplyEncoded ==
  /\ call.op = "ChannelEncoder.apply"
  /\ call.status = "ok"
  /\ call' = Recorded(ChannelDecoder_apply(decoder, Object(call.out)), TRUE, call.orig)
  /\ UNCHANGED <<rnd, cltu, encoder, decoder, builder, ret, pdu>>

NextChain ==
  \/ EncoderAdd
  \/ EncoderConfigure
  \/ EncoderApply
  \/ DecoderAdd
  \/ DecoderConfigure
  \/ DecoderApply
  \/ DecoderApplyEncoded

SpecChain == InitChain /\ [][NextChain]_vars

----------------------------------------------------------------------------
(* One builder of any of the three kinds driven by its caller              *)

\* the constructor arguments tried: a frame with no optional field, whose length
\* leaves Capacity + 1 octets of user data, and a frame with every optional
\* field, whose length leaves Capacity octets
TmConfigs ==
  {<<Capacity + 1 - sh - TmTransferFrameBuilder_compute_user_data_length(0, sh, sh = 1, TRUE),
     sh, sh = 1, TRUE>> : sh \in {0, 1}}

AosConfigs ==
  {<<Capacity + 1 - AosTransferFrameBuilder_compute_user_data_length(0, TRUE, iz, ud, iz = 1, FALSE),
     TRUE, iz, ud, iz = 1, FALSE>> : iz \in {0}, ud \in UserDataType}
    \cup {<<Capacity - AosTransferFrameBuilder_compute_user_data_length(0, FALSE, 1, "VCA", TRUE, TRUE),
            FALSE, 1, "VCA", TRUE, TRUE>>}

\* the payloads, security fields and optional fields the caller offers
Unit(n) == [i \in 1..n |-> 16 + i]

SecurityHeaders ==
  {BytesNone, BytesOf(<<161>>), BytesOf(<<161, 162, 163>>),
   BytesOf(Fill(MAX_TC_FRAME_LENGTH - 6, 161)), BytesOf(Fill(MAX_TC_FRAME_LENGTH - 4, 161))}

SecurityTrailers == {BytesNone, BytesOf(<<177>>)}

OptionalFields == {BytesNone, BytesOf(<<193>>), BytesOf(<<193, 194, 195, 196>>)}

VirtualChannelIds == {5, 63, 64}

\* the bytes a call added to the payload
Stored(before, after) ==
  IF before.kind = "TC"
  THEN LenOrZero(after.payload_data)
  ELSE PayloadLength(after.payload_units) - PayloadLength(before.payload_units)

\* what the caller saw of the last call: the method, its outcome, the bytes
\* offered (for set_set_vr_control_command the number passed) and stored, the
\* free length before the call, and whether the arguments were a valid range
\* for a method of this builder
Ret(op, before, r, offered, valid) ==
  [op |-> op, status |-> r.status, val |-> r.val, offered |-> offered,
   stored |-> IF op \in {"add_data", "add_space_packet", "add_bitstream_data"}
              THEN Stored(before, r.self)
              ELSE 0,
   free_before |-> before.free_user_data_length,
   valid |-> valid]

\* the bytes the TM builder accounts for beyond the capacity computed at construction
Inflation(self) ==
  self.free_user_data_length + LenOrZero(self.security_header) + LenOrZero(self.security_trailer)
    + PayloadLength(self.payload_units)
    - TmTransferFrameBuilder_compute_user_data_length(
        self.length, self.secondary_header_data_length, self.ocf_present, self.fecf_present)

InitBuilders ==
  /\ builder \in {TmTransferFrameBuilder_init(c[1], c[2], c[3], c[4]) : c \in TmConfigs}
                   \cup {AosTransferFrameBuilder_init(c[1], c[2], c[3], c[4], c[5], c[6]) : c \in AosConfigs}
                   \cup {TcTransferFrameBuilder_init(fecf) : fecf \in BOOLEAN}
  /\ ret = Ret("new", builder, Done(builder, "ok", 0), 0, TRUE)
  /\ rnd = RndIdle
  /\ cltu = CltuIdle
  /\ ChainIdle
  /\ PduIdle

\* the builder and the caller's view after the call with outcome r
Returns(op, r, offered, valid) ==
  /\ builder' = r.self
  /\ ret' = Ret(op, builder, r, offered, valid)
  /\ UNCHANGED <<rnd, cltu, encoder, decoder, call, pdu>>

SetVirtualChannelId ==
  /\ builder.kind = "AOS"
  /\ \E v \in VirtualChannelIds :
       Returns("set_virtual_channel_id",
               AosTransferFrameBuilder_set_virtual_channel_id(builder, v), 0, TRUE)

SetSecondaryHeader ==
  /\ builder.kind = "TM"
  /\ \E b \in OptionalFields :
       Returns("set_secondary_header", TmTransferFrameBuilder_set_secondary_header(builder, b), 0, TRUE)

SetInsertZone ==
  /\ builder.kind = "AOS"
  /\ \E b \in OptionalFields :
       Returns("set_insert_zone", AosTransferFrameBuilder_set_insert_zone(builder, b), 0, TRUE)

SetOcf ==
  /\ builder.kind \in {"TM", "AOS"}
  /\ \E b \in OptionalFields : Returns("set_ocf", Builder_set_ocf(builder, b), 0, TRUE)

SetIdle ==
  /\ builder.kind \in {"TM", "AOS"}
  /\ \E idle \in BOOLEAN :
       Returns("set_idle",
               IF builder.kind = "TM"
               THEN TmTransferFrameBuilder_set_idle(builder, idle)
               ELSE AosTransferFrameBuilder_set_idle(builder, idle),
               0, TRUE)

SetSecurity ==
  /\ builder.kind \in {"TM", "AOS", "TC"}
  /\ \E header \in SecurityHeaders, trailer \in SecurityTrailers :
       LET r == CASE builder.kind = "TM" -> TmTransferFrameBuilder_set_security(builder, header, trailer)
                  [] builder.kind = "AOS" -> AosTransferFrameBuilder_set_security(builder, header, trailer)
                  [] builder.kind = "TC" -> TcTransferFrameBuilder_set_security(builder, header, trailer)
       IN /\ builder.kind = "TM" => Inflation(r.self) <= MaxInflation
          /\ Returns("set_security", r, 0, TRUE)

AddSpacePacket ==
  /\ builder.kind \in {"TM", "AOS"}
  /\ \E n \in 0..MaxUnitLen :
       Returns("add_space_packet",
               IF builder.kind = "TM"
               THEN TmTransferFrameBuilder_add_space_packet(builder, Unit(n))
               ELSE AosTransferFrameBuilder_add_space_packet(builder, Unit(n)),
               n, builder.kind = "AOS" => builder.user_data_type = "M_PDU")

AddBitstreamData ==
  /\ builder.kind = "AOS"
  /\ \E n \in 0..MaxUnitLen, valid_data_bits \in {8} :
       Returns("add_bitstream_data",
               AosTransferFrameBuilder_add_bitstream_data(builder, Unit(n), valid_data_bits),
               n, builder.user_data_type = "B_PDU")

AddData ==
  /\ builder.kind \in {"TM", "AOS", "TC"}
  /\ \E n \in 0..MaxUnitLen, offset \in {0, 1}, length \in {-1, 1} :
       Returns("add_data",
               CASE builder.kind = "TM" -> TmTransferFrameBuilder_add_data(builder, Unit(n), offset, length)
                 [] builder.kind = "AOS" -> AosTransferFrameBuilder_add_data(builder, Unit(n), offset, length)
                 [] builder.kind = "TC" -> TcTransferFrameBuilder_add_data(builder, Unit(n), offset, length),
               ActualLength(Unit(n), offset, length), ValidRange(Unit(n), offset, length))

SetControlCommandFlag ==
  /\ builder.kind = "TC"
  /\ \E flag \in BOOLEAN :
       Returns("set_control_command_flag",
               TcTransferFrameBuilder_set_control_command_flag(builder, flag), 0, TRUE)

SetSegment ==
  /\ builder.kind = "TC"
  /\ \E map_id \in {1, 64} :
       Returns("set_segment", TcTransferFrameBuilder_set_segment(builder, map_id), 0, TRUE)

ClearData ==
  /\ builder.kind = "TC"
  /\ Returns("clear_data", TcTransferFrameBuilder_clear_data(builder), 0, TRUE)

SetUnlockControlCommand ==
  /\ builder.kind = "TC"
  /\ Returns("set_unlock_control_command",
             TcTransferFrameBuilder_set_unlock_control_command(builder), 0, TRUE)

SetSetVrControlCommand ==
  /\ builder.kind = "TC"
  /\ \E fs_number \in {7, 256} :
       Returns("set_set_vr_control_command",
               TcTransferFrameBuilder_set_set_vr_control_command(builder, fs_number),
               fs_number, TRUE)

Build ==
  /\ builder.kind \in {"TM", "AOS", "TC"}
  /\ Returns("build",
             CASE builder.kind = "TM" -> TmTransferFrameBuilder_build(builder)
               [] builder.kind = "AOS" -> AosTransferFrameBuilder_build(builder)
               [] builder.kind = "TC" -> TcTransferFrameBuilder_build(builder),
             0, TRUE)

NextBuilders ==
  \/ SetVirtualChannelId
  \/ SetSecondaryHeader
  \/ SetInsertZone
  \/ SetOcf
  \/ SetIdle
  \/ SetSecurity
  \/ AddSpacePacket
  \/ AddBitstreamData
  \/ AddData
  \/ SetControlCommandFlag
  \/ SetSegment
  \/ ClearData
  \/ SetUnlockControlCommand
  \/ SetSetVrControlCommand
  \/ Build

SpecBuilders == InitBuilders /\ [][NextBuilders]_vars

----------------------------------------------------------------------------
(* Transfer frames constructed from a buffer                               *)

\* longest data zone following a primary header
MaxBodyLen == 3

\* struct.pack(">H", w)
PackH(w) == <<w \div 256, w % 256>>

\* a construction that has not run yet: the class, the buffer and the remaining
\* constructor arguments (segmented_fn is given as the set of virtual channels
\* it answers True for)
FrameCall(cls, frame, fhec, iz, udt, ocf, fecf, shl, stl, seg) ==
  [cls |-> cls, pc |-> "new", frame |-> frame,
   frame_header_error_control_present |-> fhec, insert_zone_length |-> iz,
   user_data_type |-> udt, ocf_present |-> ocf, fecf_present |-> fecf,
   security_header_length |-> shl, security_trailer_length |-> stl,
   segmented_fn |-> seg, result |-> Raise("none")]

\* the data zones offered behind a primary header
Bodies == {Unit(n) : n \in 0..MaxBodyLen}

\* TM buffers as the tests make them: struct.pack(">HBBH", hdr_part1, mcfc,
\* vcfc, hdr_part2) + body, and one buffer cut short inside the primary header
TmFrames ==
  {PackH(ocf) \o <<0, 0>> \o PackH(sh * 2^15 + sync * 2^14 + po * 2^13 + sli * 2^11 + fhp) \o body :
     ocf \in {0, 1}, sh \in {0, 1}, sync \in {0, 1}, po \in {0, 1}, sli \in {0, 3},
     fhp \in {0, TM_FIRST_HEADER_POINTER_IDLE, TM_FIRST_HEADER_POINTER_NO_PACKET}, body \in Bodies}
    \cup {<<0, 0, 0>>}

TmCalls ==
  {FrameCall("TM", frame, FALSE, 0, "VCA", FALSE, fecf, shl, stl, {}) :
     frame \in TmFrames, fecf \in BOOLEAN, shl \in {0, 1}, stl \in {0, 1}}

\* AOS buffers: version number and virtual channel in the first word, frame
\* count and signalling field zero, then whatever follows the primary header
AosFrames ==
  {PackH(version * 2^14 + vcid) \o <<0, 0, 0, 0>> \o body :
     version \in {0, 1}, vcid \in {5, 63}, body \in Bodies}
    \cup {<<64, 0, 0>>}

AosCalls ==
  {FrameCall("AOS", frame, fhec, iz, udt, ocf, fecf, 0, 0, {}) :
     frame \in AosFrames, fhec \in BOOLEAN, iz \in {0, 1}, udt \in {"M_PDU", "B_PDU", "VCA"},
     ocf \in BOOLEAN, fecf \in BOOLEAN}

\* the data zones of TC buffers: short ones, the two control commands, and the
\* zones that make a buffer of 1024 and of 1025 octets
TcBodies ==
  Bodies \cup {<<0>>, <<130, 0, 7>>}
    \cup {Fill(MAX_TC_FRAME_LENGTH - TC_PRIMARY_HEADER_LENGTH + extra, 0) : extra \in {0, 1}}

\* TC buffers: struct.pack(">HHB", hdr_part1, hdr_part2, vcfc) + body, where the
\* length field is the buffer's length minus one, or off by length_error, and
\* one buffer cut short inside the primary header
TcFrames ==
  {PackH(version * 2^14 + bypass * 2^13 + ccf * 2^12 + 1)
     \o PackH(vcid * 2^10 + ((TC_PRIMARY_HEADER_LENGTH + Len(body) - 1 + length_error) % 2^10))
     \o <<0>> \o body :
     version \in {0, 1}, bypass \in {0, 1}, ccf \in {0, 1}, vcid \in {0, 5},
     length_error \in {0, 1}, body \in TcBodies}
    \cup {<<0, 0, 0, 3>>}

TcCalls ==
  {FrameCall("TC", frame, FALSE, 0, "VCA", FALSE, fecf, shl, 0, seg) :
     frame \in TcFrames, fecf \in BOOLEAN, shl \in {0, 1}, seg \in {{}, {5}}}

InitFrames ==
  /\ rnd = RndIdle
  /\ cltu = CltuIdle
  /\ ChainIdle
  /\ BuilderIdle
  /\ pdu \in TmCalls \cup AosCalls \cup TcCalls

\* TmTransferFrame(frame, fecf_present, security_header_length, security_trailer_length)
TmTransferFrameNew ==
  /\ pdu.cls = "TM"
  /\ pdu.pc = "new"
  /\ pdu' = [pdu EXCEPT !.pc = "done",
                        !.result = TmTransferFrame_init(pdu.frame, pdu.fecf_present,
                                                        pdu.security_header_length,
                                                        pdu.security_trailer_length)]
  /\ UNCHANGED <<rnd, cltu, encoder, decoder, call, builder, ret>>

\* AosTransferFrame(frame, frame_header_error_control_present, insert_zone_length,
\*                  user_data_type, ocf_present, fecf_present)
AosTransferFrameNew ==
  /\ pdu.cls = "AOS"
  /\ pdu.pc = "new"
  /\ pdu' = [pdu EXCEPT !.pc = "done",
                        !.result = AosTransferFrame_init(pdu.frame,
                                                         pdu.frame_header_error_control_present,
                                                         pdu.insert_zone_length, pdu.user_data_type,
                                                         pdu.ocf_present, pdu.fecf_present,
                                                         pdu.security_header_length,
                                                         pdu.security_trailer_length)]
  /\ UNCHANGED <<rnd, cltu, encoder, decoder, call, builder, ret>>

\* TcTransferFrame(frame, segmented_fn, fecf_present, security_header_length)
TcTransferFrameNew ==
  /\ pdu.cls = "TC"
  /\ pdu.pc = "new"
  /\ pdu' = [pdu EXCEPT !.pc = "done",
                        !.result = TcTransferFrame_init(pdu.frame, pdu.segmented_fn, pdu.fecf_present,
                                                        pdu.security_header_length,
                                                        pdu.security_trailer_length)]
  /\ UNCHANGED <<rnd, cltu, encoder, decoder, call, builder, ret>>

NextFrames ==
  \/ TmTransferFrameNew
  \/ AosTransferFrameNew
  \/ TcTransferFrameNew

SpecFrames == InitFrames /\ [][NextFrames]_vars

----------------------------------------------------------------------------
(* Calls made by concurrent workers                                        *)
(* Each worker runs one call at a time; the locals of its call (the loop   *)
(* index, the generator state, the buffer being written) live in its own   *)
(* frame, and what its last call left there is still there when the next   *)
(* call begins.  The loops of the randomizer advance one octet per step,   *)
(* the loop of the CLTU encoder one block per step, and the steps of the   *)
(* workers interleave.                                                     *)

Threads == {1, 2}

\* calls a worker makes one after the other
MaxCallsPerThread == 2

\* the other seeding: the generator goes on from where it was left
lfsr_seed_carried(left_behind) == left_behind

\* lfsr_byte_equivalent = 0xFF, the first statement of randomize_frame_tm and of
\* randomize_cltu, whatever the generator held before
lfsr_seed(left_behind) == 255

\* the generator state after n octets
RECURSIVE lfsr_after(_, _)
lfsr_after(lfsr, n) == IF n = 0 THEN lfsr ELSE lfsr_after(get_random_byte(lfsr), n - 1)

\* a configured ChannelEncoder shared by the workers
SharedEncoder ==
  [frame_copy |-> FALSE, sequential_encoders |-> <<"TmRandomizerEncoder", "TmAsmEncoder">>,
   configured |-> TRUE]

CallArg(op, data, start, stop, randomize) ==
  [op |-> op, data |-> data, start |-> start, stop |-> stop, randomize |-> randomize]

\* the calls offered to a worker
LoopCalls ==
  {CallArg("randomize_frame_tm", d, 0, Len(d), FALSE) : d \in {Unit(1), Unit(MaxRandLen)}}
    \cup {CallArg("randomize_cltu", Unit(MaxRandLen), 1, st, FALSE) : st \in {2, 7}}
    \cup {CallArg("CltuEncoder.apply", d, 0, 0, TRUE) : d \in {<<>>, CltuExample \o <<1>>}}

ApplyCalls ==
  {CallArg("CltuDecoder.apply", CltuEncoder_apply(TRUE, CltuExample \o <<1>>), 0, 0, TRUE),
   CallArg("ChannelEncoder.apply", Unit(2), 0, 0, FALSE)}

\* a worker that has not called anything yet
IdleThread ==
  [op |-> "none", data |-> <<>>, start |-> 0, stop |-> 0, randomize |-> FALSE,
   pc |-> "idle", i |-> 0, lfsr |-> 0, buf |-> <<>>, out |-> Raise("none"), calls |-> 0]

InitCalls ==
  /\ rnd = [t \in Threads |-> IdleThread]
  /\ cltu = CltuIdle
  /\ ChainIdle
  /\ BuilderIdle
  /\ PduIdle

\* a worker enters randomize_frame_tm, randomize_cltu or CltuEncoder.apply
ThreadCall ==
  \E t \in Threads, a \in LoopCalls :
    /\ rnd[t].pc \in {"idle", "returned"}
    /\ rnd[t].calls < MaxCallsPerThread
    /\ rnd' = [rnd EXCEPT ![t] =
                 [op |-> a.op, data |-> a.data, start |-> a.start,
                  stop |-> Min(Len(a.data), a.stop), randomize |-> a.randomize,
                  pc |-> "running", i |-> a.start,
                  lfsr |-> IF a.op = "CltuEncoder.apply" THEN rnd[t].lfsr ELSE lfsr_seed(rnd[t].lfsr),
                  buf |-> IF a.op = "CltuEncoder.apply" THEN START_SEQUENCE ELSE a.data,
                  out |-> Raise("none"), calls |-> rnd[t].calls + 1]]
    /\ UNCHANGED <<cltu, encoder, decoder, call, builder, ret, pdu>>

\* one turn of the loop of randomize_frame_tm / randomize_cltu
RandomizeOctet ==
  \E t \in Threads :
    /\ rnd[t].pc = "running"
    /\ rnd[t].op \in {"randomize_frame_tm", "randomize_cltu"}
    /\ rnd[t].i < rnd[t].stop
    /\ LET random_byte == get_random_byte(rnd[t].lfsr)
       IN rnd' = [rnd EXCEPT ![t].buf[rnd[t].i + 1] = Xor(@, random_byte),
                             ![t].lfsr = random_byte,
                             ![t].i = @ + 1]
    /\ UNCHANGED <<cltu, encoder, decoder, call, builder, ret, pdu>>

\* one turn of the loop of CltuEncoder.apply: the block is padded, randomized by
\* a randomize_cltu of its own, and encoded
CltuEncodeBlock ==
  \E t \in Threads :
    /\ rnd[t].pc = "running"
    /\ rnd[t].op = "CltuEncoder.apply"
    /\ rnd[t].i < (Len(rnd[t].data) + 6) \div 7
    /\ LET block_segment == Slice(rnd[t].data, rnd[t].i * 7, rnd[t].i * 7 + 7)
           block_padded == block_segment \o Fill(7 - Len(block_segment), FILLER_BYTE)
           seed == lfsr_seed(rnd[t].lfsr)
           block_to_bch == IF rnd[t].randomize THEN randomize_loop(block_padded, 0, 7, seed)
                           ELSE block_padded
       IN rnd' = [rnd EXCEPT ![t].buf = @ \o encode_cltu_block(block_to_bch).val,
                             ![t].lfsr = IF rnd[t].randomize THEN lfsr_after(seed, 7) ELSE @,
                             ![t].i = @ + 1]
    /\ UNCHANGED <<cltu, encoder, decoder, call, builder, ret, pdu>>

\* the loop is over: the call returns its buffer
ThreadReturn ==
  \E t \in Threads :
    /\ rnd[t].pc = "running"
    /\ IF rnd[t].op = "CltuEncoder.apply"
       THEN /\ rnd[t].i >= (Len(rnd[t].data) + 6) \div 7
            /\ rnd' = [rnd EXCEPT ![t].out = Ok(rnd[t].buf \o STOP_SEQUENCE), ![t].pc = "returned"]
       ELSE /\ rnd[t].i >= rnd[t].stop
            /\ rnd' = [rnd EXCEPT ![t].out = Ok(rnd[t].buf), ![t].pc = "returned"]
    /\ UNCHANGED <<cltu, encoder, decoder, call, builder, ret, pdu>>

\* a worker calls CltuDecoder.apply or apply() of the shared ChannelEncoder
ThreadApply ==
  \E t \in Threads, a \in ApplyCalls :
    /\ rnd[t].pc \in {"idle", "returned"}
    /\ rnd[t].calls < MaxCallsPerThread
    /\ LET out == IF a.op = "CltuDecoder.apply" THEN CltuDecoder_apply(a.randomize, a.data)
                  ELSE LET c == ChannelEncoder_apply(SharedEncoder, Object(a.data))
                       IN [status |-> c.status, val |-> c.out]
       IN rnd' = [rnd EXCEPT ![t] =
                    [op |-> a.op, data |-> a.data, start |-> 0, stop |-> 0,
                     randomize |-> a.randomize, pc |-> "returned", i |-> 0,
                     lfsr |-> rnd[t].lfsr, buf |-> <<>>, out |-> out,
                     calls |-> rnd[t].calls + 1]]
    /\ UNCHANGED <<cltu, encoder, decoder, call, builder, ret, pdu>>

NextCalls ==
  \/ ThreadCall
  \/ RandomizeOctet
  \/ CltuEncodeBlock
  \/ ThreadReturn
  \/ ThreadApply

SpecCalls == InitCalls /\ [][NextCalls]_vars

----------------------------------------------------------------------------
(* Claims                                                                  *)

\* C8: randomize_frame_tm applied twice to a byte string returns it, and
\* randomize_cltu applied twice with the same range [start, stop) returns it.
C8_RandomizeSelfInverse ==
  rnd.n = 2 => rnd.buf = rnd.orig

C8_Witness ==
  /\ rnd.n = 2
  /\ rnd.fn = "cltu"
  /\ rnd.start = 1
  /\ rnd.stop = 3
  /\ Len(rnd.orig) = 3
  /\ rnd.mid # rnd.orig

\* C7 as stated: for every data and both randomize settings,
\* CltuDecoder(randomize).apply(CltuEncoder(randomize).apply(frame, data)) = data.
C7_RoundTripEveryData ==
  (cltu.pc = "decoded" /\ cltu.enc_randomize = cltu.dec_randomize /\ Len(cltu.data) \in {0, 1, 7, 8, 22})
    => cltu.decoded = Ok(cltu.data)

\* C7 amended: the round trip returns data with its trailing 0x55 filler octets
\* removed, hence data itself whenever data does not end in 0x55.
C7_RoundTripUpToFiller ==
  (cltu.pc = "decoded" /\ cltu.enc_randomize = cltu.dec_randomize)
    => /\ cltu.decoded = Ok(RStrip(cltu.data, FILLER_BYTE))
       /\ (cltu.data = <<>> \/ cltu.data[Len(cltu.data)] # FILLER_BYTE) => cltu.decoded = Ok(cltu.data)

C7_Witness ==
  /\ cltu.pc = "decoded"
  /\ cltu.enc_randomize
  /\ cltu.dec_randomize
  /\ Len(cltu.data) = 22
  /\ cltu.data[22] = 197
  /\ cltu.decoded = Ok(cltu.data)

\* the calls an apply() made to its byte stages, in order
StageEvents(log) == SelectSeq(log, LAMBDA e : e.stage # "frame_decoder")

\* the calls an apply() made to the frame decoder
ParserEvents(log) == SelectSeq(log, LAMBDA e : e.stage = "frame_decoder")

\* C2: apply() on a configured chain invokes the stages once each in the order
\* they were added; the first stage receives the frame's bytes (encoder) or the
\* raw input (decoder), every later stage the previous stage's output, every
\* encoder stage also the original frame; only a stage that raises ends the run
\* before the last stage.
C2_StageOrdering ==
  LET isEnc == call.op = "ChannelEncoder.apply"
      isDec == call.op = "ChannelDecoder.apply"
      stages == IF isEnc THEN encoder.sequential_encoders ELSE decoder.sequential_decoders
      configured == IF isEnc THEN encoder.configured ELSE decoder.configured
      evs == StageEvents(call.log)
  IN ((isEnc \/ isDec) /\ configured /\ ~call.arg.is_none)
       => /\ Len(evs) <= Len(stages)
          /\ \A k \in 1..Len(evs) :
               /\ evs[k].stage = stages[k]
               /\ evs[k].data = IF k = 1 THEN call.arg.frame ELSE evs[k - 1].out.val
               /\ isEnc => evs[k].frame = call.arg.frame
               /\ k < Len(evs) => evs[k].out.status = "ok"
          /\ call.status = "ok" => Len(evs) = Len(stages)
          /\ Len(evs) < Len(stages) => (Len(evs) > 0 /\ evs[Len(evs)].out.status # "ok")

C2_Witness ==
  /\ call.op = "ChannelEncoder.apply"
  /\ call.status = "ok"
  /\ encoder.sequential_encoders = <<"TmRandomizerEncoder", "TmAsmEncoder">>
  /\ Len(call.log) = 2
  /\ Len(call.arg.frame) = 6

\* C3: the bytes produced by the encoder chain [TM randomizer, ASM attach], put
\* through the decoder chain [ASM verify-and-strip, TM derandomizer], reach the
\* frame-parsing stage as exactly the frame's original bytes.
C3_OrderReversible ==
  (/\ call.op = "ChannelDecoder.apply"
   /\ call.from_encoder
   /\ decoder.configured
   /\ encoder.sequential_encoders = <<"TmRandomizerEncoder", "TmAsmEncoder">>
   /\ decoder.sequential_decoders = <<"TmAsmDecoder", "TmRandomizerDecoder">>)
    => /\ call.status = "ok"
       /\ Len(ParserEvents(call.log)) = 1
       /\ ParserEvents(call.log)[1].data = call.orig

C3_Witness ==
  /\ call.op = "ChannelDecoder.apply"
  /\ call.from_encoder
  /\ call.status = "ok"
  /\ encoder.sequential_encoders = <<"TmRandomizerEncoder", "TmAsmEncoder">>
  /\ decoder.sequential_decoders = <<"TmAsmDecoder", "TmRandomizerDecoder">>
  /\ call.orig = <<26, 207, 252, 29, 7, 9>>
  /\ call.arg.frame # call.orig

\* C4: once configure() has been called, every add_encoding_function /
\* add_decoding_function raises IllegalStateException and leaves the list of
\* stages unchanged, and no operation takes a chain back to unconfigured.
C4_SealingPermanent ==
  [][/\ encoder.configured
          => /\ encoder'.configured
             /\ encoder'.sequential_encoders = encoder.sequential_encoders
             /\ call'.op = "add_encoding_function" => call'.status = "IllegalStateException"
     /\ decoder.configured
          => /\ decoder'.configured
             /\ decoder'.sequential_decoders = decoder.sequential_decoders
             /\ call'.op = "add_decoding_function" => call'.status = "IllegalStateException"]_vars

C4_Witness ==
  /\ encoder.configured
  /\ Len(encoder.sequential_encoders) = 1
  /\ call.op = "add_encoding_function"
  /\ call.status = "IllegalStateException"

\* C5: apply() on a chain that has not been configured raises
\* IllegalStateException without invoking any stage or the frame parser,
\* whatever stages were added before.
C5_ApplyBeforeConfigure ==
  /\ (call.op = "ChannelEncoder.apply" /\ ~encoder.configured)
       => (call.status = "IllegalStateException" /\ call.log = <<>>)
  /\ (call.op = "ChannelDecoder.apply" /\ ~decoder.configured)
       => (call.status = "IllegalStateException" /\ call.log = <<>>)

C5_Witness ==
  /\ call.op = "ChannelEncoder.apply"
  /\ ~encoder.configured
  /\ Len(encoder.sequential_encoders) = 2
  /\ ~call.arg.is_none
  /\ call.status = "IllegalStateException"

\* C6: a successful ChannelDecoder.apply() invokes the frame parser exactly once,
\* after every byte stage has returned, on the last stage's output; when a byte
\* stage raises the frame parser is not invoked and no frame is returned.
C6_OneFrameParsingStage ==
  call.op = "ChannelDecoder.apply"
    => LET n == Len(call.log)
       IN /\ call.status = "ok"
               => /\ n = Len(decoder.sequential_decoders) + 1
                  /\ Len(ParserEvents(call.log)) = 1
                  /\ call.log[n].stage = "frame_decoder"
                  /\ call.log[n].data = IF n = 1 THEN call.arg.frame ELSE call.log[n - 1].out.val
                  /\ \A k \in 1..(n - 1) : call.log[k].out.status = "ok"
                  /\ call.out = call.log[n].data
          /\ (\E k \in 1..n : call.log[k].out.status # "ok")
               => /\ ParserEvents(call.log) = <<>>
                  /\ call.status # "ok"
                  /\ call.out = <<>>

C6_Witness ==
  /\ call.op = "ChannelDecoder.apply"
  /\ call.status = "ValueError"
  /\ ~call.arg.is_none
  /\ decoder.sequential_decoders = <<"TmRandomizerDecoder", "TmAsmDecoder">>
  /\ Len(call.log) = 2
  /\ call.log[1].out.status = "ok"

\* a field declared at construction that no setter has supplied
MissingOptionalField(b) ==
  \/ b.kind = "TM" /\ b.secondary_header_data_length > 0 /\ ~b.secondary_header_bytes.some
  \/ b.kind = "AOS" /\ b.insert_zone_length > 0 /\ ~b.insert_zone_bytes.some
  \/ b.kind \in {"TM", "AOS"} /\ b.ocf_present /\ ~b.ocf_bytes.some

\* a builder no call has been rejected on, holding all that build() asks for
ReadyToBuild(b) ==
  CASE b.kind = "TM" -> Builder_is_full(b) /\ ~MissingOptionalField(b) /\ Inflation(b) = 0
    [] b.kind = "AOS" -> Builder_is_full(b) /\ ~MissingOptionalField(b)
    [] b.kind = "TC" -> b.payload_data.some /\ b.free_user_data_length >= 0

\* C1: build() of a TM, AOS or TC builder whose header settings were accepted and
\* whose payload fills the frame returns a frame, the frame whose bytes parse back
\* to the header values set and to the payload added.
C1_BuildReturnsFrame ==
  (ret.op = "build" /\ ReadyToBuild(builder)) => ret.status = "ok"

\* C9: add_data / add_space_packet / add_bitstream_data with a valid offset and
\* length never raises: it returns the number of offered bytes it did not store,
\* stored + returned = offered, and it stores at most the free length before the call.
C9_AddNeverThrows ==
  (ret.op \in {"add_data", "add_space_packet", "add_bitstream_data"} /\ ret.valid)
    => /\ ret.status = "ok"
       /\ ret.stored + ret.val = ret.offered
       /\ ret.stored <= ret.free_before

SecurityLength(b) == LenOrZero(b.security_header) + LenOrZero(b.security_trailer)

\* C11: on the TM, AOS and TC builders a set_security call rejected for
\* insufficient space leaves the builder exactly as it was before the call
\* (free length, stored header and trailer, payload), and an accepted call
\* changes the free length by the old security length minus the new one
C11_SetSecurityAtomic ==
  [][ret'.op = "set_security" =>
       /\ ret'.status = "ValueError" => builder' = builder
       /\ ret'.status = "ok" =>
            builder'.free_user_data_length
              = builder.free_user_data_length + SecurityLength(builder) - SecurityLength(builder')]_vars

\* build() got past its state checks: it reached the layout of the frame
BuildLaidOut == ret.op = "build" /\ ret.status # "IllegalStateException"

\* the pointer build() puts in the frame: for TM the eleven low bits of octets
\* 4 and 5 of the buffer it assembled, for AOS the value of the pointer method
\* of the builder's user data type
BuildPointer(b) ==
  CASE b.kind = "TM" ->
         LET buf == TmTransferFrameBuilder_frame_bytes(b).buf
         IN (buf[5] % 8) * 256 + buf[6]
    [] b.kind = "AOS" /\ b.user_data_type = "B_PDU" ->
         AosTransferFrameBuilder_compute_bpdu_bitstream_data_pointer(b)
    [] OTHER -> AosTransferFrameBuilder_compute_mpdu_first_header_pointer(b)

IsPacket(b, unit) ==
  IF b.kind = "TM" THEN unit.is_packet ELSE unit.type_val = "TYPE_PACKET"

\* the octets of payload stored before the first unit added by add_space_packet,
\* 0x7FF when there is no such unit
RECURSIVE FirstPacketOffset(_, _, _)
FirstPacketOffset(b, units, offset) ==
  IF units = <<>> THEN TM_FIRST_HEADER_POINTER_NO_PACKET
  ELSE IF IsPacket(b, Head(units)) THEN offset
  ELSE FirstPacketOffset(b, Tail(units), offset + Len(Head(units).data))

\* C12: for a TM builder or an AOS M_PDU builder that is not marked idle, the
\* first header pointer build() writes is the offset, counted from the start of
\* the user data after the security header, of the first unit added with
\* add_space_packet, and 0x7FF when no such unit was added
C12_FirstHeaderPointer ==
  (/\ BuildLaidOut
   /\ builder.kind = "TM" \/ (builder.kind = "AOS" /\ builder.user_data_type = "M_PDU")
   /\ ~builder.idle)
    => BuildPointer(builder) = FirstPacketOffset(builder, builder.payload_units, 0)

\* the idle value reserved for the pointer of the builder's frame
IdlePointer(b) ==
  CASE b.kind = "TM" -> TM_FIRST_HEADER_POINTER_IDLE
    [] b.user_data_type = "B_PDU" -> AOS_B_PDU_FIRST_HEADER_POINTER_IDLE
    [] OTHER -> AOS_M_PDU_FIRST_HEADER_POINTER_IDLE

\* C13: whenever the builder is marked idle by set_idle(true), the pointer
\* build() writes is the reserved idle value, 0x7FE for TM and AOS M_PDU and
\* 0x3FFE for AOS B_PDU, whatever payload was added
C13_IdlePointer ==
  (/\ BuildLaidOut
   /\ builder.kind = "TM" \/ (builder.kind = "AOS" /\ builder.user_data_type \in {"M_PDU", "B_PDU"})
   /\ builder.idle)
    => BuildPointer(builder) = IdlePointer(builder)

RECURSIVE PayloadOctets(_)
PayloadOctets(units) ==
  IF units = <<>> THEN <<>> ELSE Head(units).data \o PayloadOctets(Tail(units))

\* the octets the TM build() assembled hold, in frame order, the security
\* header, the payload, 0x55 in every octet up to the security trailer, the
\* security trailer, the OCF and the two octets of the FECF
TmIdleFillLaidOut(b) ==
  LET buf == TmTransferFrameBuilder_frame_bytes(b).buf
      start == TM_PRIMARY_HEADER_LENGTH
                 + (IF b.secondary_header_data_length > 0 THEN 1 + b.secondary_header_data_length ELSE 0)
      header == IF Truthy(b.security_header) THEN b.security_header.bytes ELSE <<>>
      trailer == IF Truthy(b.security_trailer) THEN b.security_trailer.bytes ELSE <<>>
      ocf == IF b.ocf_present THEN b.ocf_bytes.bytes ELSE <<>>
      fecf == IF b.fecf_present THEN <<0, 0>> ELSE <<>>
      payload == PayloadOctets(b.payload_units)
      fill_start == start + Len(header) + Len(payload)
      fill_end == b.length - Len(fecf) - Len(ocf) - Len(trailer)
  IN /\ Len(buf) = b.length
     /\ b.secondary_header_data_length > 0 =>
          SubSeq(buf, TM_PRIMARY_HEADER_LENGTH + 1, start)
            = <<b.secondary_header_data_length>> \o b.secondary_header_bytes.bytes
     /\ SubSeq(buf, start + 1, fill_start) = header \o payload
     /\ fill_start < fill_end
     /\ \A i \in (fill_start + 1)..fill_end : buf[i] = 85
     /\ SubSeq(buf, fill_end + 1, b.length) = trailer \o ocf \o fecf

\* C14: a frame built by the TM or AOS builder while idle and not full holds
\* 0x55 in every octet of the user data area after the payload and before the
\* security trailer, OCF and FECF, and the fill overwrites no octet of the
\* headers, payload, security trailer, OCF or FECF
C14_IdleFill ==
  (/\ ret.op = "build"
   /\ builder.kind \in {"TM", "AOS"}
   /\ builder.idle /\ ~Builder_is_full(builder)
   /\ ~MissingOptionalField(builder)
   /\ builder.kind = "TM" => Inflation(builder) = 0)
    => /\ ret.status = "ok"
       /\ builder.kind = "TM" => TmIdleFillLaidOut(builder)

\* the octets the TM build() assembles while idle and not full are laid out as
\* C14 states, up to the construction of the frame from them
TmIdleFillAssembled ==
  (/\ ret.op = "build"
   /\ builder.kind = "TM"
   /\ builder.idle /\ ~Builder_is_full(builder)
   /\ ~MissingOptionalField(builder)
   /\ Inflation(builder) = 0)
    => TmIdleFillLaidOut(builder)

\* C15: every frame AosTransferFrameBuilder.build() returns while the builder
\* is marked idle carries virtual channel id 63, the value that makes the
\* parsed frame an idle frame whatever its user data type and pointer, in
\* every order of the other setter calls around set_idle
C15_AosIdleMarking ==
  (/\ ret.op = "build"
   /\ builder.kind = "AOS"
   /\ builder.idle
   /\ ~MissingOptionalField(builder))
    => /\ ret.status = "ok"
       /\ builder.virtual_channel_id = 63

\* an AOS builder marked idle holds virtual channel id 63
AosIdleKeepsChannel ==
  (builder.kind = "AOS" /\ builder.idle) => builder.virtual_channel_id = 63

\* on a builder with the control command flag set, set_unlock_control_command
\* leaves the payload 0x00 and set_set_vr_control_command(n), n of eight bits,
\* leaves 0x82 0x00 n
TcControlCommandReplacesPayload ==
  (builder.kind = "TC" /\ builder.control_command_flag) =>
    /\ ret.op = "set_unlock_control_command" =>
         ret.status = "ok" /\ builder.payload_data = BytesOf(<<0>>)
    /\ (ret.op = "set_set_vr_control_command" /\ ret.offered <= 255) =>
         ret.status = "ok" /\ builder.payload_data = BytesOf(<<130, 0, ret.offered>>)

\* C16: on a TC builder with the control command flag set,
\* set_unlock_control_command leaves exactly the octet 0x00 as payload and
\* set_set_vr_control_command(n) exactly 0x82 0x00 n, whatever was added
\* before, and build() then returns the frame, a BC frame carrying UNLOCK,
\* respectively SET_VR with value n
C16_ControlCommandPayload ==
  /\ TcControlCommandReplacesPayload
  /\ (/\ ret.op = "build"
      /\ builder.kind = "TC"
      /\ builder.control_command_flag
      /\ builder.payload_data \in {BytesOf(<<0>>)} \cup {BytesOf(<<130, 0, n>>) : n \in 0..255})
       => ret.status = "ok"

\* the derived ranges of a constructed frame lie inside its buffer
RangesInBounds(frame, f) ==
  /\ 0 <= f.data_field_start
  /\ 0 <= f.data_field_length
  /\ f.data_field_start + f.data_field_length <= Len(frame)
  /\ f.ocf_present =>
       /\ f.data_field_start + f.data_field_length + f.security_trailer_length <= f.ocf_start
       /\ f.ocf_start + 4 <= Len(frame)

\* C17: constructing a TM, AOS or TC frame from a buffer and a configuration
\* either produces a frame whose data field lies inside the buffer and whose
\* OCF, when present, is a 4-octet range inside the buffer at or after the end
\* of the data field and security trailer, or is refused by the constructor
\* with its ValueError.
C17_DerivedRangesInBounds ==
  pdu.pc = "done" =>
    \/ pdu.result.status = "ValueError"
    \/ pdu.result.status = "ok" /\ RangesInBounds(pdu.frame, pdu.result.val)

\* the flags of the second header word of a TM buffer
TmSynchronisationFlag(frame) == (UnpackH(frame, 4) \div 2^14) % 2 = 1

TmPacketOrderFlag(frame) == (UnpackH(frame, 4) \div 2^13) % 2 = 1

TmSegmentLengthIdentifier(frame) == (UnpackH(frame, 4) \div 2^11) % 4

\* C18: constructing a TmTransferFrame from a buffer whose synchronisation flag
\* is 0 and whose packet order flag is 1 or whose segment length identifier is
\* not 3 fails with the parse error ValueError.
C18_TmSynchronisationInvariant ==
  (/\ pdu.cls = "TM"
   /\ pdu.pc = "done"
   /\ Len(pdu.frame) >= TM_PRIMARY_HEADER_LENGTH
   /\ ~TmSynchronisationFlag(pdu.frame)
   /\ (TmPacketOrderFlag(pdu.frame) \/ TmSegmentLengthIdentifier(pdu.frame) # 3))
    => pdu.result.status = "ValueError"

\* the length the header of a TC buffer announces
TcAnnouncedLength(frame) == (UnpackH(frame, 2) % 2^10) + 1

TcHeaderAccepted(frame) ==
  /\ Len(frame) >= TC_PRIMARY_HEADER_LENGTH
  /\ Len(frame) <= MAX_TC_FRAME_LENGTH
  /\ UnpackH(frame, 0) \div 2^14 = 0
  /\ TcAnnouncedLength(frame) = Len(frame)

TcControlCommandFlag(frame) == (UnpackH(frame, 0) \div 2^12) % 2 = 1

TcBypassFlag(frame) == (UnpackH(frame, 0) \div 2^13) % 2 = 1

TcVirtualChannelId(frame) == UnpackH(frame, 2) \div 2^10

\* C20: a TC buffer made of a valid primary header alone, with no FECF and no
\* security header configured, is parsed, and the frame has type BC iff the
\* control command flag is set, otherwise BD iff the bypass flag is set,
\* otherwise AD; it is segmented iff it is not BC and segmented_fn answers True
\* for its virtual channel.
C20_TcFrameType ==
  (/\ pdu.cls = "TC"
   /\ pdu.pc = "done"
   /\ TcHeaderAccepted(pdu.frame)
   /\ Len(pdu.frame) = TC_PRIMARY_HEADER_LENGTH
   /\ ~pdu.fecf_present
   /\ pdu.security_header_length = 0
   /\ pdu.segmented_fn = {})
    => /\ pdu.result.status = "ok"
       /\ pdu.result.val.frame_type =
            IF TcControlCommandFlag(pdu.frame) THEN "BC"
            ELSE IF TcBypassFlag(pdu.frame) THEN "BD" ELSE "AD"
       /\ pdu.result.val.segmented =
            (~TcControlCommandFlag(pdu.frame) /\ TcVirtualChannelId(pdu.frame) \in pdu.segmented_fn)

\* the offsets at which pat occurs in stream, from offset from on
Occurrences(stream, pat, from) ==
  {i \in from..(Len(stream) - Len(pat)) : \A k \in 1..Len(pat) : stream[i + k] = pat[k]}

\* the least and the greatest member of a non-empty set of offsets
Least(S) == CHOOSE i \in S : \A j \in S : i <= j

Greatest(S) == CHOOSE i \in S : \A j \in S : i >= j

\* the 8-octet block of stream at offset at fails its checksum
ChecksumFails(stream, at) ==
  stream[at + 8] # Sum(SubSeq(stream, at + 1, at + 7)) % 256

\* a received stream the decoder has to refuse: no start sequence, or no stop
\* sequence after the first start sequence, or a span between the first start
\* sequence and the last stop sequence that is not a whole number of 8-octet
\* blocks, or a block in that span that fails its checksum
CltuStreamUnsound(stream) ==
  LET starts == Occurrences(stream, START_SEQUENCE, 0)
  IN \/ starts = {}
     \/ LET first == Least(starts) + Len(START_SEQUENCE)
            stops == Occurrences(stream, STOP_SEQUENCE, first)
        IN \/ stops = {}
           \/ LET last == Greatest(stops)
              IN \/ (last - first) % 8 # 0
                 \/ \E b \in 0..((last - first) \div 8 - 1) : ChecksumFails(stream, first + 8 * b)

\* C21: CltuDecoder.apply raises an error and returns no data when the input
\* has no EB90 start sequence, when no run of eight C5 octets follows the start
\* sequence, when the span between the first start sequence and the last stop
\* sequence after it is not a multiple of 8 octets, or when an 8-octet block of
\* that span fails its checksum.
C21_CltuDecodingFailsFast ==
  (cltu.pc = "decoded" /\ CltuStreamUnsound(cltu.encoded.val))
    => cltu.decoded = Raise("ValueError")

\* a stream with two stop sequences: up to the first one it is a sound CLTU of
\* one codeword, up to the last one it is not, and the decoder refused it
C21_Witness ==
  /\ cltu.pc = "decoded"
  /\ cltu.encoded.val = START_SEQUENCE \o GoodBlock \o STOP_SEQUENCE \o STOP_SEQUENCE
  /\ cltu.decoded = Raise("ValueError")

\* among the streams decoded there are sound ones, accepted
CltuStreamAccepted ==
  /\ cltu.pc = "decoded"
  /\ ~CltuStreamUnsound(cltu.encoded.val)
  /\ cltu.decoded.status = "ok"

\* out is EB90, then n codewords of 8 octets with a matching checksum, then
\* eight C5 octets
CltuFramed(out, n) ==
  /\ Len(out) = 2 + 8 * n + 8
  /\ SubSeq(out, 1, 2) = START_SEQUENCE
  /\ SubSeq(out, Len(out) - 7, Len(out)) = STOP_SEQUENCE
  /\ \A b \in 0..(n - 1) : ~ChecksumFails(out, 2 + 8 * b)

\* C22: every output of CltuEncoder.apply, for every input byte string, is EB90
\* followed by one or more 8-octet BCH codewords followed by eight C5 octets:
\* its length is 2 + 8*N + 8 with N >= 1.
C22_CltuFraming ==
  cltu.pc \in {"encoded", "decoded"} =>
    \E n \in 1..(MaxDataLen + 1) : CltuFramed(cltu.encoded.val, n)

\* what the encoder does: one codeword for every 7 octets of input begun, hence
\* none for the empty input
CltuFramingOfInput ==
  cltu.pc \in {"encoded", "decoded"} =>
    CltuFramed(cltu.encoded.val, (Len(cltu.data) + 6) \div 7)

\* C23: a non-randomizing CLTU encoder turns the 7 octets 41 04 10 41 04 10 40
\* into EB90, the codeword 41 04 10 41 04 10 40 F6, and eight C5 octets.
C23_ReferenceVector ==
  (/\ cltu.pc \in {"encoded", "decoded"}
   /\ ~cltu.enc_randomize
   /\ cltu.data = CltuExample)
    => cltu.encoded.val = START_SEQUENCE \o <<65, 4, 16, 65, 4, 16, 64, 246>> \o STOP_SEQUENCE

\* C24: encode_cltu_block rejects every input whose length is not 7 and
\* decode_cltu_block every input whose length is not 8; for a block d of 7
\* octets encode_cltu_block(d) is d followed by one checksum octet,
\* decode_cltu_block returns d for it, and raises a checksum error for it when
\* one bit of the checksum octet is flipped.
C24_BchBlockBoundaries ==
  /\ cltu.pc \in {"encoded", "decoded"} =>
       /\ Len(cltu.block) # 7 => cltu.encoded = Raise("ValueError")
       /\ Len(cltu.block) = 7 =>
            /\ cltu.encoded.status = "ok"
            /\ Len(cltu.encoded.val) = 8
            /\ SubSeq(cltu.encoded.val, 1, 7) = cltu.block
  /\ cltu.pc = "decoded" =>
       /\ Len(cltu.received) # 8 => cltu.decoded = Raise("ValueError")
       /\ (Len(cltu.block) = 7 /\ cltu.flip = -1) => cltu.decoded = Ok(cltu.block)
       /\ (Len(cltu.block) = 7 /\ cltu.flip # -1) => cltu.decoded = Raise("ValueError")

\* a codeword whose checksum octet wrapped around, received with its highest
\* bit flipped and refused
C24_Witness ==
  /\ cltu.pc = "decoded"
  /\ cltu.block = Fill(7, 255)
  /\ cltu.flip = 7
  /\ cltu.received = Fill(7, 255) \o <<121>>
  /\ cltu.decoded = Raise("ValueError")

\* what a call returns when it is the only call ever made
AloneResult(f) ==
  CASE f.op = "randomize_frame_tm" -> Ok(randomize_frame_tm(f.data))
    [] f.op = "randomize_cltu" -> Ok(randomize_cltu(f.data, f.start, f.stop))
    [] f.op = "CltuEncoder.apply" -> Ok(CltuEncoder_apply(f.randomize, f.data))
    [] f.op = "CltuDecoder.apply" -> CltuDecoder_apply(f.randomize, f.data)
    [] f.op = "ChannelEncoder.apply" ->
         LET c == ChannelEncoder_apply(SharedEncoder, Object(f.data))
         IN [status |-> c.status, val |-> c.out]

\* C26: whatever calls the workers made before and however their steps
\* interleave, a call that has returned has returned what it returns when it is
\* the only call ever made, and two workers that made the same call hold the
\* same result.
C26_NoStateAcrossCalls ==
  /\ \A t \in Threads : rnd[t].pc = "returned" => rnd[t].out = AloneResult(rnd[t])
  /\ \A t, u \in Threads :
       (/\ rnd[t].pc = "returned"
        /\ rnd[u].pc = "returned"
        /\ rnd[t].op = rnd[u].op
        /\ rnd[t].data = rnd[u].data
        /\ rnd[t].start = rnd[u].start
        /\ rnd[t].stop = rnd[u].stop) => rnd[t].out = rnd[u].out

\* worker 1 has returned from its second call, a randomize_frame_tm begun with
\* the generator state its first call left behind, while worker 2 is between
\* the two blocks of a CltuEncoder.apply
C26_Witness ==
  /\ rnd[1].pc = "returned"
  /\ rnd[1].calls = 2
  /\ rnd[1].op = "randomize_frame_tm"
  /\ rnd[1].data = <<17, 18, 19>>
  /\ rnd[1].out.val # rnd[1].data
  /\ rnd[2].pc = "running"
  /\ rnd[2].op = "CltuEncoder.apply"
  /\ rnd[2].i = 1
  /\ rnd[2].lfsr # 255

\* the outcome of build() on builder b
BuildOutcome(b) ==
  CASE b.kind = "TM" -> TmTransferFrameBuilder_build(b)
    [] b.kind = "AOS" -> AosTransferFrameBuilder_build(b)
    [] b.kind = "TC" -> TcTransferFrameBuilder_build(b)

ConstructedCapacity(b) ==
  IF b.kind = "TM"
  THEN TmTransferFrameBuilder_compute_user_data_length(
         b.length, b.secondary_header_data_length, b.ocf_present, b.fecf_present)
  ELSE AosTransferFrameBuilder_compute_user_data_length(
         b.length, b.frame_header_error_control_present, b.insert_zone_length,
         b.user_data_type, b.ocf_present, b.fecf_present)

\* the free length is not negative and, with the security header and trailer and
\* the stored payload, makes up the capacity computed at construction
FreeSpaceAccounted(b) ==
  /\ b.free_user_data_length >= 0
  /\ b.free_user_data_length + SecurityLength(b) + PayloadLength(b.payload_units)
       = ConstructedCapacity(b)
  /\ Builder_is_full(b) <=> b.free_user_data_length = 0

\* C28: for the TM and AOS builders, after every sequence of set_security,
\* add_data, add_space_packet and add_bitstream_data calls, rejected ones
\* included, free_user_data_length >= 0, free_user_data_length plus the lengths
\* of the security header and trailer and of the stored payload units equals the
\* capacity computed at construction, and is_full() holds exactly when the free
\* length is 0.
C28_FreeSpaceAccounting ==
  builder.kind \in {"TM", "AOS"} => FreeSpaceAccounted(builder)

\* the accounting of the AOS builder alone
AosFreeSpaceAccounted ==
  builder.kind = "AOS" => FreeSpaceAccounted(builder)

\* a TC builder for a BC frame
IsBcBuilder(b) == b.kind = "TC" /\ b.control_command_flag

\* neither a segmentation header nor a security header or trailer is configured
NoSegmentNoSecurity(b) ==
  /\ ~b.segmented
  /\ ~Truthy(b.security_header)
  /\ ~Truthy(b.security_trailer)

\* C29: on the TC builder, control_command_flag true implies that no
\* segmentation header and no security header or trailer are configured:
\* set_control_command_flag(true) clears both, and while the flag is true
\* set_segment, and set_security with a non-empty header or trailer, raise
\* IllegalStateException and leave the builder unchanged.
C29_TcBcInvariant ==
  [][/\ IsBcBuilder(builder') => NoSegmentNoSecurity(builder')
     /\ (IsBcBuilder(builder) /\ ret'.op = "set_segment") =>
          (ret'.status = "IllegalStateException" /\ builder' = builder)
     /\ (IsBcBuilder(builder) /\ ret'.op = "set_security") =>
          \/ ret'.status = "IllegalStateException" /\ builder' = builder
          \/ ret'.status = "ok" /\ NoSegmentNoSecurity(builder')]_vars

\* a BC builder holding a payload on which a set_security with a header or
\* trailer has just been refused
C29_Witness ==
  /\ IsBcBuilder(builder)
  /\ ret.op = "set_security"
  /\ ret.status = "IllegalStateException"
  /\ builder.payload_data.some

\* the room a TC builder has for a payload: the maximum payload length minus the
\* segmentation header and the security header and trailer
TcPayloadRoom(b) ==
  b.max_payload_length - (IF b.segmented THEN 1 ELSE 0) - SecurityLength(b)

\* C30: add_data on a TC builder replaces the payload set before, and the room
\* offered to the new payload is the maximum payload length minus segmentation
\* and security overhead, whatever the length of the payload replaced: the call
\* stores min(len(data), room) octets, returns the rest, and leaves
\* free_user_data_length = room - stored.
C30_TcPayloadReplacement ==
  (/\ builder.kind = "TC"
   /\ ret.op = "add_data"
   /\ ret.valid
   /\ ret.free_before >= 0)
    => /\ ret.status = "ok"
       /\ ret.stored = Min(ret.offered, TcPayloadRoom(builder))
       /\ ret.val = ret.offered - ret.stored
       /\ builder.free_user_data_length = TcPayloadRoom(builder) - ret.stored

\* what add_data does: the room it offers is the free length it finds, which
\* still counts the payload about to be replaced
TcPayloadReplacementWithinFree ==
  (/\ builder.kind = "TC"
   /\ ret.op = "add_data"
   /\ ret.valid
   /\ ret.free_before >= 0)
    => /\ ret.status = "ok"
       /\ ret.stored = Min(ret.offered, ret.free_before)
       /\ ret.val = ret.offered - ret.stored
       /\ builder.free_user_data_length = TcPayloadRoom(builder) - ret.stored

====
